---- MODULE Spec2Model ----
(***************************************************************************)
(* PicoData: a reader for a Simarine Pico monitoring unit.                 *)
(* Two scripts share the protocol code: pico-json.py (telemetry loop that  *)
(* prints one JSON line per accepted frame) and pico-raw.py (decodes one   *)
(* frame and prints the registry copy).                                    *)
(*                                                                         *)
(* Python values are modelled as records [k, a, b, s]:                     *)
(*   int    k = "int",   a = the integer (b = 1); an int beyond 32 bits    *)
(*          has b = 0, a = its sign and s = its magnitude in limbs         *)
(*   float  k = "float", an IEEE 754 double: b * m * 2^a with sign b (1 or *)
(*          -1) and the 53-bit mantissa m held in s as four 15-bit limbs,  *)
(*          lowest first; 0.0 and -0.0 have a = 0 and s = <<>>             *)
(*   list   k = "list",  the two-element list [a, b]                       *)
(*   str    k = "str",   s = the sequence of code points                   *)
(*   None   k = "none"                                                     *)
(* Hex buffers (the strings BinToHex and send_receive build) are sequences *)
(* of one-character strings.                                               *)
(***************************************************************************)
EXTENDS Integers, Sequences, FiniteSets, TLC

\* ------------------------------------------------------------------------
\* Natural numbers beyond 32 bits: little-endian sequences of 15-bit limbs
\* without leading zero limbs (<<>> is 0)
\* ------------------------------------------------------------------------
Base == 2^15

Min(x, y) == IF x < y THEN x ELSE y
Max(x, y) == IF x > y THEN x ELSE y

\* the one element of a singleton; The({e(v) : v \in {x}}) is e(x) with x
\* evaluated once
The(S) == CHOOSE r \in S : TRUE

LimbAt(n, i) == IF i <= Len(n) THEN n[i] ELSE 0
\* the limbs [i \in 1..k |-> e] as a sequence, every limb evaluated once
AsSeq(f) == f \o <<>>
\* n without its leading zero limbs
Trim(n) ==
    SubSeq(n, 1, CHOOSE h \in 0..Len(n) :
                     (h = 0 \/ n[h] # 0) /\ \A j \in (h + 1)..Len(n) : n[j] = 0)
\* a natural below 2^31 as limbs, and back
NatOf(i) == Trim(<<i % Base, (i \div Base) % Base, i \div (Base * Base)>>)
SmallOf(n) == LimbAt(n, 1) + LimbAt(n, 2) * Base + LimbAt(n, 3) * Base * Base

\* x + y: limb i takes a carry when a limb below it overflows and every limb
\* between passes the carry on
SumAt(x, y, i) == LimbAt(x, i) + LimbAt(y, i)
CarryInto(x, y, i) ==
    IF \E j \in 1..(i - 1) :
          SumAt(x, y, j) >= Base /\ \A k \in (j + 1)..(i - 1) : SumAt(x, y, k) >= Base - 1
    THEN 1 ELSE 0
AddN(x, y) ==
    Trim(AsSeq([i \in 1..(Max(Len(x), Len(y)) + 1) |->
                  (SumAt(x, y, i) + CarryInto(x, y, i)) % Base]))

\* x - y for x >= y, with borrows in the same way
BorrowInto(x, y, i) ==
    IF \E j \in 1..(i - 1) :
          x[j] < LimbAt(y, j) /\ \A k \in (j + 1)..(i - 1) : x[k] <= LimbAt(y, k)
    THEN 1 ELSE 0
SubN(x, y) ==
    Trim(AsSeq([i \in 1..Len(x) |->
                  (x[i] - LimbAt(y, i) - BorrowInto(x, y, i) + Base) % Base]))

LessN(x, y) ==
    \/ Len(x) < Len(y)
    \/ /\ Len(x) = Len(y)
       /\ \E i \in 1..Len(x) : x[i] < y[i] /\ \A j \in (i + 1)..Len(x) : x[j] = y[j]

\* x * m for a limb m: the low halves of the limb products plus the high
\* halves one limb up
MulSmall(x, m) ==
    AddN(AsSeq([i \in 1..Len(x) |-> (x[i] * m) % Base]),
         <<0>> \o [i \in 1..Len(x) |-> (x[i] * m) \div Base])

\* x * Base^k
ShiftLimbs(x, k) == IF x = <<>> THEN <<>> ELSE [i \in 1..k |-> 0] \o x

\* x * y for y of at most four limbs
MulAt(x, y, i) == ShiftLimbs(MulSmall(x, LimbAt(y, i)), i - 1)
MulN(x, y) ==
    AddN(AddN(MulAt(x, y, 1), MulAt(x, y, 2)), AddN(MulAt(x, y, 3), MulAt(x, y, 4)))

\* x * 2^k and floor(x / 2^k)
ShiftLeft(x, k) == ShiftLimbs(MulSmall(x, 2^(k % 15)), k \div 15)
ShiftRight(x, k) ==
    Trim(AsSeq([i \in 1..(Len(x) - (k \div 15)) |->
                  (x[i + (k \div 15)] \div 2^(k % 15))
                  + (LimbAt(x, i + 1 + (k \div 15)) % 2^(k % 15)) * 2^(15 - (k % 15))]))

\* the number of bits of x, bit i of x (bit 0 the lowest), and whether every
\* bit of x below bit k is 0
BitLen(x) ==
    IF x = <<>> THEN 0
    ELSE 15 * (Len(x) - 1)
         + (CHOOSE b \in 1..15 : 2^(b - 1) <= x[Len(x)] /\ x[Len(x)] < 2^b)
Bit(x, i) == (LimbAt(x, (i \div 15) + 1) \div 2^(i % 15)) % 2
LowZero(x, k) ==
    /\ \A j \in 1..Min(k \div 15, Len(x)) : x[j] = 0
    /\ LimbAt(x, (k \div 15) + 1) % 2^(k % 15) = 0

\* x / 2^k (k >= 1) rounded to the nearest integer, a half to the even one
RoundShift(x, k) ==
    IF Bit(x, k - 1) = 1 /\ (~LowZero(x, k - 1) \/ Bit(x, k) = 1)
    THEN AddN(ShiftRight(x, k), <<1>>)
    ELSE ShiftRight(x, k)

\* ------------------------------------------------------------------------
\* Python values
\* ------------------------------------------------------------------------
IntV(n) == [k |-> "int", a |-> n, b |-> 1, s |-> <<>>]
\* the int sg * n for a natural n in limbs
IntOfN(sg, n) ==
    IF BitLen(n) <= 31 THEN IntV(sg * SmallOf(n)) ELSE [k |-> "int", a |-> sg, b |-> 0, s |-> n]

\* the float sg * m * 2^e: m is 0 (with e = 0) or has exactly 53 bits
Flt(sg, m, e) == [k |-> "float", a |-> e, b |-> sg, s |-> m]
FlRounded(sg, m, e) ==
    IF BitLen(m) > 53 THEN Flt(sg, ShiftRight(m, 1), e + 1) ELSE Flt(sg, m, e)
\* the float nearest to sg * n * 2^e (round to nearest, ties to even)
FlBits(sg, n, e, len) ==
    IF len <= 53 THEN Flt(sg, ShiftLeft(n, 53 - len), e - (53 - len))
    ELSE The({FlRounded(sg, m, e + len - 53) : m \in {RoundShift(n, len - 53)}})
Fl(sg, n, e) ==
    IF n = <<>> THEN Flt(sg, <<>>, 0)
    ELSE The({FlBits(sg, v, e, BitLen(v)) : v \in {n}})

\* float(v) for an int or a float v
ToFloat(v) ==
    IF v.k = "float" THEN v
    ELSE Fl(IF v.a < 0 THEN -1 ELSE 1, NatOf(IF v.a < 0 THEN -v.a ELSE v.a), 0)
IsZero(x) == ToFloat(x).s = <<>>

\* x * y
FMulF(x, y) == Fl(x.b * y.b, MulN(x.s, y.s), x.a + y.a)
FMul(x, y) == The({FMulF(v[1], v[2]) : v \in {<<ToFloat(x), ToFloat(y)>>}})

\* x / y for y # 0. The mantissas are scaled to four full limbs (D has its
\* top bit set); the quotient is found limb by limb, each limb from an
\* estimate on the top limbs that is lowered until it fits. A step takes
\* <<Q, R>> (quotient so far, remainder) to the next.
RECURSIVE Digit(_, _, _)
Digit(R, D, q) == IF LessN(R, MulSmall(D, q)) THEN Digit(R, D, q - 1) ELSE q
QHat(R, D) == Min(Base - 1, (LimbAt(R, 5) * Base + LimbAt(R, 4)) \div D[4])
DivDigit(Q, R, D, q) == <<<<q>> \o Q, SubN(R, MulSmall(D, q))>>
DivStep(st, D) ==
    The({The({DivDigit(st[1], r, D, q) : q \in {Digit(r, D, QHat(r, D))}}) :
         r \in {ShiftLimbs(st[2], 1)}})
\* <<floor(X * Base^4 / D), the remainder>> for X < 2 * D
DivMant(X, D) ==
    The({The({The({The({<<Trim(s4[1]), s4[2]>> :
                        s4 \in {DivStep(s3, D)}}) :
                   s3 \in {DivStep(s2, D)}}) :
              s2 \in {DivStep(s1, D)}}) :
         s1 \in {DivStep(DivDigit(<<>>, X, D, IF LessN(X, D) THEN 0 ELSE 1), D)}})
\* a mantissa whose bits below the top 16 are all 0 is divided by limb
\* arithmetic alone: ShortDiv gives <<floor(x / d), x % d>> for d < 2^16,
\* taking the limbs of x from limb i down
RECURSIVE ShortDiv(_, _, _, _, _)
ShortDiv(x, d, i, q, r) ==
    IF i = 0 THEN <<Trim(q), IF r = 0 THEN <<>> ELSE <<r>>>>
    ELSE The({ShortDiv(x, d, i - 1, <<t \div d>> \o q, t % d) : t \in {r * Base + x[i]}})
IsShort(m) == m[1] = 0 /\ m[2] = 0 /\ m[3] % 128 = 0
\* the quotient with its lowest bit set when a remainder is left: the bits
\* below the rounding position then tell an inexact quotient from an exact one
Sticky(qr) ==
    IF qr[2] = <<>> \/ qr[1][1] % 2 = 1 THEN qr[1] ELSE [qr[1] EXCEPT ![1] = @ + 1]
FDivF(x, y) ==
    IF x.s = <<>> THEN Flt(x.b * y.b, <<>>, 0)
    ELSE IF IsShort(y.s)
    THEN The({Fl(x.b * y.b, Sticky(qr), x.a - y.a - 67) :
              qr \in {The({ShortDiv(v, y.s[4] * 256 + (y.s[3] \div 128), 6, <<>>, 0) :
                           v \in {<<0, 0>> \o x.s}})}})
    ELSE The({Fl(x.b * y.b, Sticky(qr), x.a - y.a - 60) :
              qr \in {DivMant(ShiftLeft(x.s, 7), ShiftLeft(y.s, 7))}})
FDiv(x, y) == The({FDivF(v[1], v[2]) : v \in {<<ToFloat(x), ToFloat(y)>>}})

\* x + y
FAddN(x, y, e, nx, ny) ==
    IF x.b = y.b THEN Fl(x.b, AddN(nx, ny), e)
    ELSE IF nx = ny THEN Flt(1, <<>>, 0)
    ELSE IF LessN(nx, ny) THEN Fl(y.b, SubN(ny, nx), e)
    ELSE Fl(x.b, SubN(nx, ny), e)
FAddF(x, y) ==
    IF x.s = <<>> /\ y.s = <<>> THEN Flt(IF x.b = -1 /\ y.b = -1 THEN -1 ELSE 1, <<>>, 0)
    ELSE IF x.s = <<>> THEN y
    ELSE IF y.s = <<>> THEN x
    ELSE The({FAddN(x, y, Min(x.a, y.a), n[1], n[2]) :
              n \in {<<ShiftLeft(x.s, x.a - Min(x.a, y.a)),
                       ShiftLeft(y.s, y.a - Min(x.a, y.a))>>}})
FAdd(x, y) == The({FAddF(v[1], v[2]) : v \in {<<ToFloat(x), ToFloat(y)>>}})

FNeg(x) == [ToFloat(x) EXCEPT !.b = -@]
FAbs(x) == [ToFloat(x) EXCEPT !.b = 1]
\* the float n / d of two ints, d > 0: int / int, and int / float(d), round
\* the exact quotient once
FloatV(n, d) == FDiv(IntV(n), IntV(d))

\* round(x) of Python 3 for a float x: the nearest int, a half to the even one
RoundF(x) ==
    IF x.s = <<>> THEN IntV(0)
    ELSE IF x.a >= 0 THEN IntOfN(x.b, ShiftLeft(x.s, x.a))
    ELSE IntOfN(x.b, RoundShift(x.s, -x.a))
ListV(x, y) == [k |-> "list", a |-> x, b |-> y, s |-> <<>>]
StrV(cs) == [k |-> "str", a |-> 0, b |-> 1, s |-> cs]
NoneV == [k |-> "none", a |-> 0, b |-> 1, s |-> <<>>]

\* s[i:j] and s[i:] of Python, on a sequence (0-based, clamped to the length)
Slice(str, i, j) == SubSeq(str, i + 1, Min(j, Len(str)))
SliceFrom(str, i) == SubSeq(str, i + 1, Len(str))

\* ------------------------------------------------------------------------
\* Hex strings
\* ------------------------------------------------------------------------
HexChars == <<"0", "1", "2", "3", "4", "5", "6", "7",
              "8", "9", "a", "b", "c", "d", "e", "f">>

IsHexChar(c) == \E i \in 1..16 : HexChars[i] = c
HexVal(c) == (CHOOSE i \in 1..16 : HexChars[i] = c) - 1

\* format(x, '02x') for a byte x
Format02x(x) == <<HexChars[(x \div 16) + 1], HexChars[(x % 16) + 1]>>

\* "%02x" % x: the hex digits of x, at least two
RECURSIVE HexDigits(_)
HexDigits(x) == IF x < 16 THEN <<HexChars[x + 1]>> ELSE HexDigits(x \div 16) \o <<HexChars[(x % 16) + 1]>>
FormatHex(x) == IF x < 16 THEN <<"0">> \o HexDigits(x) ELSE HexDigits(x)

\* hexdump: the first four hex digits of b, padded on the left to four, as
\* two groups
hexdump(b) ==
    LET hex == FormatHex(b)
        hex3 == IF Len(hex) = 3 THEN <<"0">> \o hex ELSE hex
        hex2 == IF Len(hex3) = 2 THEN <<"0", "0">> \o hex3 ELSE hex3
    IN Slice(hex2, 0, 2) \o <<" ">> \o Slice(hex2, 2, 4)

\* BinToHex: every byte as two hex characters followed by a space
BinToHex(message) ==
    [i \in 1..(3 * Len(message)) |->
        IF i % 3 = 0 THEN " " ELSE Format02x(message[(i + 2) \div 3])[i % 3]]

\* str.replace(' ', '')
RemoveSpaces(str) == SelectSeq(str, LAMBDA c : c # " ")

RECURSIVE HexDigitsValue(_, _)
HexDigitsValue(str, acc) ==
    IF str = <<>> THEN acc ELSE HexDigitsValue(Tail(str), acc * 16 + HexVal(Head(str)))

RECURSIVE StripLeft(_)
StripLeft(str) == IF str # <<>> /\ Head(str) = " " THEN StripLeft(Tail(str)) ELSE str
RECURSIVE StripRight(_)
StripRight(str) ==
    IF str # <<>> /\ str[Len(str)] = " " THEN StripRight(SubSeq(str, 1, Len(str) - 1)) ELSE str

\* int(s, 16): surrounding blanks are ignored; -1 stands for ValueError
\* (no digits, or a character that is no hex digit)
PyInt16(str) ==
    LET t == StripRight(StripLeft(str))
    IN IF t = <<>> \/ \E i \in 1..Len(t) : ~IsHexChar(t[i]) THEN -1
       ELSE HexDigitsValue(t, 0)

\* bytearray.fromhex for a text of hex pairs and blanks
HexPairs(h) == AsSeq([i \in 1..(Len(h) \div 2) |-> HexVal(h[2 * i - 1]) * 16 + HexVal(h[2 * i])])
FromHex(hexStr) == HexPairs(RemoveSpaces(hexStr))

\* HexToByte: chr(int(pair, 16)) of every two characters; the result is the
\* sequence of code points, <<-1>> standing for ValueError
HexToByte(hexStr) ==
    LET h == RemoveSpaces(hexStr)
        n == (Len(h) + 1) \div 2
        cs == [i \in 1..n |-> PyInt16(Slice(h, 2 * (i - 1), 2 * i))]
    IN IF \E i \in 1..n : cs[i] = -1 THEN <<-1>> ELSE cs

\* ------------------------------------------------------------------------
\* getNextField and parseResponse
\* ------------------------------------------------------------------------
Sentinel == <<"7", "f", " ", "f", "f", " ", "f", "f", " ", "f", "f">>

FieldResult(st, nr, data, rest) == [st |-> st, nr |-> nr, data |-> data, rest |-> rest]

\* a faulty decoder that takes the two groups in the other order; C11 tells
\* it from PairOf
PairOfSwapped(field_nr, data, rest) ==
    LET a == PyInt16(RemoveSpaces(Slice(data, 6, 11)))
        b == PyInt16(RemoveSpaces(Slice(data, 0, 5)))
    IN IF a = -1 \/ b = -1 THEN FieldResult("ValueError", field_nr, NoneV, rest)
       ELSE FieldResult("ok", field_nr, ListV(a, b), rest)

\* the two integers of an 11-character payload "aa bb cc dd"
PairOf(field_nr, data, rest) ==
    LET a == PyInt16(RemoveSpaces(Slice(data, 0, 5)))
        b == PyInt16(RemoveSpaces(Slice(data, 6, 11)))
    IN IF a = -1 \/ b = -1 THEN FieldResult("ValueError", field_nr, NoneV, rest)
       ELSE FieldResult("ok", field_nr, ListV(a, b), rest)

\* one iteration of the text scan: word += nextHex; response = response[3:];
\* nextHex = response[0:2]
ScanStep(scan) ==
    LET r == SliceFrom(scan.response, 3)
    IN [response |-> r, word |-> scan.word \o scan.nextHex, nextHex |-> Slice(r, 0, 2)]

ScanStart(response) ==
    LET r == SliceFrom(response, 21)
    IN [response |-> r, word |-> <<>>, nextHex |-> Slice(r, 0, 2)]

ScanContinues(scan) == scan.nextHex # <<"0", "0">>

\* the loop has reached a state it can never leave: an iteration changes nothing
ScanStuck(scan) == ScanContinues(scan) /\ ScanStep(scan) = scan

RECURSIVE ScanLoop(_)
ScanLoop(scan) ==
    IF ~ScanContinues(scan) \/ ScanStuck(scan) THEN scan ELSE ScanLoop(ScanStep(scan))

TextOf(field_nr, scan) ==
    LET word == HexToByte(scan.word)
    IN IF ScanContinues(scan) THEN FieldResult("Hang", field_nr, NoneV, scan.response)
       ELSE IF word = <<-1>>
            THEN FieldResult("ValueError", field_nr, NoneV, scan.response)
            ELSE FieldResult("ok", field_nr, StrV(word), SliceFrom(scan.response, 6))

\* st: "ok" (a tuple is returned), "None" (unknown field type: the function
\* falls off its end), "ValueError" (int() of a slice that holds no number),
\* "Hang" (the text scan never finds a 00 group)
getNextField(response) ==
    LET field_nr == PyInt16(Slice(response, 0, 2))
        field_type == PyInt16(Slice(response, 3, 5))
    IN IF field_nr = -1 \/ field_type = -1
       THEN FieldResult("ValueError", 0, NoneV, response)
       ELSE IF field_type = 1
       THEN PairOf(field_nr, Slice(response, 6, 17), SliceFrom(response, 21))
       ELSE IF field_type = 3
       THEN LET data == Slice(response, 21, 32)
                rest == SliceFrom(response, 36)
            IN IF Slice(data, 0, 11) = Sentinel
               THEN FieldResult("ok", field_nr, StrV(<<>>), rest)
               ELSE PairOf(field_nr, data, rest)
       ELSE IF field_type = 4
       THEN TextOf(field_nr, ScanLoop(ScanStart(response)))
       ELSE FieldResult("None", field_nr, NoneV, response)

\* d with d[key] = v
DictSet(d, key, v) == (key :> v) @@ d
EmptyDict == [x \in {} |-> NoneV]

HeaderLen == 42
MinFieldLen == 6

\* a faulty loop condition that goes on with exactly 6 characters left; C14
\* tells it from ParseContinues
ParseContinuesAtSix(response) == Len(response) >= MinFieldLen

\* while (len(response) > 6)
ParseContinues(response) == Len(response) > MinFieldLen

RECURSIVE ParseLoop(_, _)
ParseLoop(response, dict) ==
    IF ~ParseContinues(response) THEN [st |-> "ok", dict |-> dict]
    ELSE LET f == getNextField(response)
         IN IF f.st = "None" THEN [st |-> "TypeError", dict |-> dict]
            ELSE IF f.st # "ok" THEN [st |-> f.st, dict |-> dict]
            ELSE ParseLoop(f.rest, DictSet(dict, f.nr, f.data))

\* st: "ok", or the exception that leaves parseResponse ("TypeError" when
\* getNextField returned None and the caller unpacks it), or "Hang"; dict is
\* what had been collected by then
parseResponse(response) == ParseLoop(SliceFrom(response, HeaderLen), EmptyDict)

\* ------------------------------------------------------------------------
\* createSensorList
\* ------------------------------------------------------------------------
\* Python string literals as code points
Ord(c) ==
    LET alphabet == <<" ", "A", "C", "E", "I", "L", "N", "O", "P", "R", "T", "U", "W", "[", "a", "b", "c", "d", "e", "f", "h", "i", "k", "l", "n", "o", "p", "r", "s", "t", "u", "w">>
        codes == <<32, 65, 67, 69, 73, 76, 78, 79, 80, 82, 84, 85, 87, 91, 97, 98, 99, 100, 101, 102, 104, 105, 107, 108, 110, 111, 112, 114, 115, 116, 117, 119>>
    IN codes[CHOOSE i \in 1..Len(alphabet) : alphabet[i] = c]
Lit(chars) == StrV([i \in 1..Len(chars) |-> Ord(chars[i])])

PicoInternal ==
    Lit(<<"P", "I", "C", "O", " ", "I", "N", "T", "E", "R", "N", "A", "L">>)

\* the two lookup tables of createSensorList, by index 0..3
fluid ==
    <<Lit(<<"U", "n", "k", "n", "o", "w", "n">>),
      Lit(<<"f", "r", "e", "s", "h", "W", "a", "t", "e", "r">>),
      Lit(<<"f", "u", "e", "l">>),
      Lit(<<"w", "a", "s", "t", "e", "W", "a", "t", "e", "r">>)>>
fluid_type ==
    <<Lit(<<"U", "n", "k", "n", "o", "w", "n">>),
      Lit(<<"f", "r", "e", "s", "h", " ", "w", "a", "t", "e", "r">>),
      Lit(<<"d", "i", "e", "s", "e", "l">>),
      Lit(<<"b", "l", "a", "c", "k", "w", "a", "t", "e", "r">>)>>

\* the kind names the code rebinds `type` to; an unrecognized code stays the
\* value read from field 1
KindName(code) ==
    CASE code = 0 -> "null" [] code = 1 -> "volt" [] code = 2 -> "current"
      [] code = 3 -> "thermometer" [] code = 5 -> "barometer" [] code = 6 -> "ohm"
      [] code = 8 -> "tank" [] code = 9 -> "battery" [] code = 13 -> "inclinometer"
      [] OTHER -> ""
KnownCodes == {0, 1, 2, 3, 5, 6, 8, 9, 13}
\* a kind name is kept apart from decoded text: k = "kind", the name in s
KindV(name) == [k |-> "kind", a |-> 0, b |-> 1, s |-> <<name>>]
IsKind(v, name) == v.k = "kind" /\ v.s = <<name>>

Res(st, v) == [st |-> st, v |-> v]
\* d[key]: KeyError when the key is missing
Get(d, key) == IF key \in DOMAIN d THEN Res("ok", d[key]) ELSE Res("KeyError", NoneV)
\* v[1] of a field value: the second integer of a pair, the second character of
\* a text, IndexError when the text is shorter
Index1(v) ==
    IF v.k = "list" THEN Res("ok", IntV(v.b))
    ELSE IF v.k = "str" /\ Len(v.s) >= 2 THEN Res("ok", StrV(<<v.s[2]>>))
    ELSE Res("IndexError", NoneV)
\* config[entry][n][1]
Field1(rec, n) ==
    LET g == Get(rec, n) IN IF g.st # "ok" THEN g ELSE Index1(g.v)

\* x / 10 (true division): TypeError for a text
Div10(v) == IF v.k = "int" THEN Res("ok", FloatV(v.a, 10)) ELSE Res("TypeError", NoneV)
\* x * 36 * 12: a text is repeated
Times432(v) ==
    IF v.k = "int" THEN IntV(v.a * 36 * 12)
    ELSE StrV([i \in 1..(Len(v.s) * 36 * 12) |-> v.s[((i - 1) % Len(v.s)) + 1]])
\* table[i]: TypeError when i is no integer, IndexError past the 4 entries
Lookup(table, v) ==
    IF v.k # "int" THEN Res("TypeError", NoneV)
    ELSE IF v.a >= Len(table) THEN Res("IndexError", NoneV)
    ELSE Res("ok", table[v.a + 1])

\* what one record adds: [st, desc, size]; desc holds the keys set before
\* 'type' and 'pos'
Entry(st, desc, size) == [st |-> st, desc |-> desc, size |-> size]
Named(rec, size) ==
    LET n == Get(rec, 3)
    IN IF n.st # "ok" THEN Entry(n.st, EmptyDict, size)
       ELSE Entry("ok", DictSet(EmptyDict, "name", n.v), size)

TankEntry(rec) ==
    LET n == Named(rec, 1)
        c7 == Field1(rec, 7)
        cap == IF c7.st = "ok" THEN Div10(c7.v) ELSE c7
        f6 == Field1(rec, 6)
        ft == IF f6.st = "ok" THEN Lookup(fluid_type, f6.v) ELSE f6
        fl == IF f6.st = "ok" THEN Lookup(fluid, f6.v) ELSE f6
    IN IF n.st # "ok" THEN n
       ELSE IF cap.st # "ok" THEN Entry(cap.st, EmptyDict, 1)
       ELSE IF ft.st # "ok" THEN Entry(ft.st, EmptyDict, 1)
       ELSE Entry("ok",
                  DictSet(DictSet(DictSet(n.desc, "capacity", cap.v),
                                  "fluid_type", ft.v), "fluid", fl.v), 1)

BatteryEntry(rec) ==
    LET n == Named(rec, 5)
        c5 == Field1(rec, 5)
    IN IF n.st # "ok" THEN n
       ELSE IF c5.st # "ok" THEN Entry(c5.st, EmptyDict, 5)
       ELSE Entry("ok", DictSet(n.desc, "capacity.nominal", Times432(c5.v)), 5)

\* pico-raw.py reads the axis from field 3 and names the sensor after it;
\* pico-json.py sets nothing but the kind
InclineEntry(rec, variant) ==
    IF variant = "json" THEN Entry("ok", EmptyDict, 1)
    ELSE LET t == Field1(rec, 3)
             d == DictSet(EmptyDict, "inclinometer_type", t.v)
         IN IF t.st # "ok" THEN Entry(t.st, EmptyDict, 1)
            ELSE IF t.v = IntV(1)
                 THEN Entry("ok", DictSet(d, "name", Lit(<<"p", "i", "t", "c", "h">>)), 1)
            ELSE IF t.v = IntV(2)
                 THEN Entry("ok", DictSet(d, "name", Lit(<<"r", "o", "l", "l">>)), 1)
            ELSE Entry("ok", d, 1)

\* elementSize is 1 unless a branch sets it
VoltSize(name) == IF name = PicoInternal THEN 6 ELSE 1
KindEntry(rec, type, variant) ==
    IF type.k # "int" THEN Entry("ok", EmptyDict, 1)
    ELSE CASE type.a = 0 -> Entry("ok", EmptyDict, 0)
           [] type.a = 1 ->
                LET n == Named(rec, 1)
                IN IF n.st # "ok" THEN n ELSE Entry("ok", n.desc, VoltSize(n.desc["name"]))
           [] type.a = 2 -> Named(rec, 2)
           [] type.a = 3 -> Named(rec, 1)
           [] type.a = 5 -> Named(rec, 2)
           [] type.a = 6 -> Named(rec, 1)
           [] type.a = 8 -> TankEntry(rec)
           [] type.a = 9 -> BatteryEntry(rec)
           [] type.a = 13 -> InclineEntry(rec, variant)
           [] OTHER -> Entry("ok", EmptyDict, 1)

TypeValue(type) ==
    IF type.k = "int" /\ type.a \in KnownCodes THEN KindV(KindName(type.a)) ELSE type

\* a faulty accumulation, every record counted as one slot; C1 tells it from
\* NextPos
NextPosPlusOne(elementPos, elementSize) == elementPos + 1

\* the offset of the record after one of size elementSize at elementPos
NextPos(elementPos, elementSize) == elementPos + elementSize

\* sensorList[id] = desc on an insertion-ordered dict kept as a sequence of
\* [id, desc]: an id met again keeps its place and gets the new value
ListSet(list, id, desc) ==
    IF \E i \in 1..Len(list) : list[i].id = id
    THEN [i \in 1..Len(list) |-> IF list[i].id = id THEN [id |-> id, desc |-> desc]
                                 ELSE list[i]]
    ELSE Append(list, [id |-> id, desc |-> desc])

\* acc: [st, list, elementPos, pos, size]; pos and size are the 'pos' written
\* and the elementSize added for each record, in enumeration order
RECURSIVE BuildFrom(_, _, _, _)
BuildFrom(config, i, variant, acc) ==
    IF i > Len(config) THEN acc
    ELSE LET rec == config[i]
             id == Field1(rec, 0)
             type == Field1(rec, 1)
             e == KindEntry(rec, type.v, variant)
             st == IF id.st # "ok" THEN id.st
                   ELSE IF type.st # "ok" THEN type.st ELSE e.st
             desc == DictSet(DictSet(e.desc, "type", TypeValue(type.v)),
                             "pos", IntV(acc.elementPos))
         IN IF st # "ok" THEN [acc EXCEPT !.st = st]
            ELSE BuildFrom(config, i + 1, variant,
                           [st |-> "ok",
                            list |-> ListSet(acc.list, id.v, desc),
                            elementPos |-> NextPos(acc.elementPos, e.size),
                            pos |-> Append(acc.pos, acc.elementPos),
                            size |-> Append(acc.size, e.size)])

\* config is the sequence of raw config records in the order config.keys()
\* yields them; st is "ok" or the exception that leaves the function
createSensorList(config, variant) ==
    BuildFrom(config, 1, variant,
              [st |-> "ok", list |-> <<>>, elementPos |-> 0, pos |-> <<>>, size |-> <<>>])

\* ------------------------------------------------------------------------
\* The decode rules (readBaro .. readIncline) and their dispatch
\* ------------------------------------------------------------------------
\* round(x): an int for an int, the nearest int for a float
Round(x) == IF x.k = "int" THEN x ELSE RoundF(x)
\* n < 0 for an int n
IsNegative(n) == IF n.b = 0 THEN n.a = -1 ELSE n.a < 0

\* element[k][idx] used as a number: KeyError when slot k is missing,
\* IndexError when the value is a text too short, TypeError when it is a
\* character (arithmetic and comparison with a number fail)
Index0(v) ==
    IF v.k = "list" THEN Res("ok", IntV(v.a))
    ELSE IF v.k = "str" /\ Len(v.s) >= 1 THEN Res("ok", StrV(<<v.s[1]>>))
    ELSE Res("IndexError", NoneV)
Elem(element, k, idx) ==
    LET g == Get(element, k)
    IN IF g.st # "ok" THEN g ELSE IF idx = 0 THEN Index0(g.v) ELSE Index1(g.v)
ElemNum(element, k, idx) ==
    LET e == Elem(element, k, idx)
    IN IF e.st # "ok" THEN e ELSE IF e.v.k # "int" THEN Res("TypeError", NoneV) ELSE e

Upd(desc, key, v) == DictSet(desc, key, v)
Read(st, desc) == [st |-> st, desc |-> desc]

readBaro(reg, desc, element, elementId) ==
    LET e == ElemNum(element, elementId, 1)
    IN IF e.st # "ok" THEN Read(e.st, desc)
       ELSE Read("ok", Upd(desc, "pressure", FloatV(e.v.a + 65536, 100)))

\* pico-json.py reports degrees Celsius, pico-raw.py kelvin
toTemperature(temp, variant) ==
    LET t == IF temp > 32768 THEN temp - 65536 ELSE temp
    IN IF variant = "json" THEN FloatV(t, 10) ELSE FloatV(t * 10 + 27315, 100)

readTemp(reg, desc, element, elementId, variant) ==
    LET e == ElemNum(element, elementId, 1)
    IN IF e.st # "ok" THEN Read(e.st, desc)
       ELSE Read("ok", Upd(desc, "temperature", toTemperature(e.v.a, variant)))

\* a faulty percentage that leaves the ratio unscaled; C12 tells it from
\* Percentage
PercentageUnscaled(remainingCapacity, capacity) ==
    IF IsZero(capacity) THEN IntV(0) ELSE FDiv(remainingCapacity, capacity)

\* percentage = (remainingCapacity / capacity) * 100 if capacity else 0
Percentage(remainingCapacity, capacity) ==
    IF IsZero(capacity) THEN IntV(0)
    ELSE FMul(FDiv(remainingCapacity, capacity), IntV(100))

readTank(reg, desc, element, elementId) ==
    LET a == ElemNum(element, elementId, 0)
        b == ElemNum(element, elementId, 1)
        capacity == IF "capacity" \in DOMAIN reg THEN reg["capacity"] ELSE IntV(0)
        remainingCapacity == FloatV(b.v.a, 10)
    IN IF a.st # "ok" THEN Read(a.st, desc)
       ELSE IF b.st # "ok" THEN Read(b.st, desc)
       ELSE Read("ok",
                 Upd(Upd(Upd(desc, "currentLevel", FloatV(a.v.a, 1000)),
                         "remainingCapacity", remainingCapacity),
                     "percentage", Percentage(remainingCapacity, capacity)))

\* the sign fold of readCurrent and readBatt: the value of `current` after
\* the if/else
FoldCurrent(raw) ==
    IF raw > 25000 THEN FloatV(65535 - raw, 100) ELSE FMul(FloatV(raw, 100), IntV(-1))
\* a faulty current that keeps the sign of the fold; C15 tells it from Current
CurrentSigned(raw) == FoldCurrent(raw)
\* -abs(current)
Current(raw) == FNeg(FAbs(FoldCurrent(raw)))

readCurrent(reg, desc, element, elementId) ==
    LET e == ElemNum(element, elementId, 1)
    IN IF e.st # "ok" THEN Read(e.st, desc)
       ELSE Read("ok", Upd(desc, "current", Current(e.v.a)))

readVolt(reg, desc, element, elementId) ==
    LET e == ElemNum(element, elementId, 1)
    IN IF e.st # "ok" THEN Read(e.st, desc)
       ELSE Read("ok", Upd(desc, "voltage", FloatV(e.v.a, 1000)))

readOhm(reg, desc, element, elementId) ==
    LET e == Elem(element, elementId, 1)
    IN IF e.st # "ok" THEN Read(e.st, desc) ELSE Read("ok", Upd(desc, "ohm", e.v))

\* pico-json.py: the axis is the parity of the slot; pico-raw.py: one folded
\* 'degree'
readIncline(reg, desc, element, elementId, variant) ==
    LET e == ElemNum(element, elementId, 1)
        inclinometer_type == IF elementId % 2 = 0 THEN "pitch" ELSE "roll"
        degree == IF e.v.a > 600 THEN FloatV(65535 - e.v.a, 10) ELSE FloatV(e.v.a, -10)
    IN IF e.st # "ok" THEN Read(e.st, desc)
       ELSE IF variant = "json"
            THEN Read("ok", Upd(desc, inclinometer_type, FloatV(e.v.a, 10)))
            ELSE Read("ok", Upd(desc, "degree", degree))

\* the divisors pico-json.py and pico-raw.py use for the state of charge and
\* the remaining capacity
SocDivisor(variant) == IF variant = "json" THEN 16000 ELSE 160
RemainingDivisor(variant) == IF variant = "json" THEN 43200 ELSE 4320000
OneWeek == 60 * 60 * 24 * 7

\* (current * stateOfCharge) + 0.001; pico-raw.py divides the product by 100
TimeDivisor(current, stateOfCharge, variant) ==
    FAdd(IF variant = "json" THEN FMul(current, stateOfCharge)
         ELSE FDiv(FMul(current, stateOfCharge), IntV(100)),
         FloatV(1, 1000))
\* round(nominal / 12 / divisor), one week when negative
TimeRemaining(nominal, divisor) ==
    The({IF IsNegative(t) THEN IntV(OneWeek) ELSE t :
         t \in {Round(FDiv(FDiv(nominal, IntV(12)), divisor))}})

\* readBatt writes key after key; an exception leaves the keys written so
\* far. BattWrites1 .. BattWrites5 are the copy's entry after the first write,
\* the second, the fourth (voltage, then the rescaled 'capacity.nominal') and
\* the fifth (current).
StateOfCharge(a0, variant) == FloatV(a0, SocDivisor(variant))
BattWrites1(desc, a0, variant) == Upd(desc, "stateOfCharge", StateOfCharge(a0, variant))
BattWrites2(desc, a0, capacity, variant) ==
    Upd(BattWrites1(desc, a0, variant), "capacity.remaining",
        FDiv(FMul(capacity, StateOfCharge(a0, variant)), IntV(RemainingDivisor(variant))))
BattWrites4(desc, a0, capacity, variant, b2) ==
    Upd(Upd(BattWrites2(desc, a0, capacity, variant), "voltage", FloatV(b2, 1000)),
        "capacity.nominal", FDiv(desc["capacity.nominal"], IntV(43200)))
BattWrites5(desc, a0, capacity, variant, b2, b1) ==
    Upd(BattWrites4(desc, a0, capacity, variant, b2), "current", Current(b1))

\* if element[elementId][0] != 65535: timeRemaining
BattTime(d5, a0, capacity, divisor) ==
    IF a0 = 65535 THEN Read("ok", d5)
    ELSE IF IsZero(divisor) THEN Read("ZeroDivisionError", d5)
    ELSE Read("ok", Upd(d5, "capacity.timeRemaining", TimeRemaining(capacity, divisor)))

\* a0, b2, b1: element[elementId][0], element[elementId + 2][1] and
\* element[elementId + 1][1], each with the exception reading it raises
ReadBattFrom(capacity, desc, variant, a0, b2, b1) ==
    IF a0.st # "ok" THEN Read(a0.st, desc)
    ELSE IF capacity.k = "str" THEN Read("TypeError", BattWrites1(desc, a0.v.a, variant))
    ELSE IF b2.st # "ok" THEN Read(b2.st, BattWrites2(desc, a0.v.a, capacity, variant))
    ELSE IF b1.st # "ok"
         THEN Read(b1.st, BattWrites4(desc, a0.v.a, capacity, variant, b2.v.a))
    ELSE The({BattTime(v[1], a0.v.a, capacity, v[2]) :
              v \in {<<BattWrites5(desc, a0.v.a, capacity, variant, b2.v.a, b1.v.a),
                       TimeDivisor(FoldCurrent(b1.v.a),
                                   StateOfCharge(a0.v.a, variant), variant)>>}})

readBatt(reg, desc, element, elementId, variant) ==
    ReadBattFrom(reg["capacity.nominal"], desc, variant,
                 ElemNum(element, elementId, 0),
                 ElemNum(element, elementId + 2, 1),
                 ElemNum(element, elementId + 1, 1))

readBattNameVoltage(reg, desc, element, elementId) ==
    LET e == ElemNum(element, elementId + 2, 1)
        name == IF "name" \in DOMAIN reg THEN reg["name"] ELSE NoneV
    IN IF e.st # "ok" THEN Read(e.st, desc)
       ELSE Read("ok", Upd(Upd(Upd(desc, "name", name), "voltage", FloatV(e.v.a, 1000)),
                           "type", KindV("battery")))

\* one pass of the dispatch for the sensor reg (its registry entry), writing
\* into desc (its entry in the copy)
ReadSensor(reg, desc, element, variant) ==
    LET elId == reg["pos"].a
        itemType == reg["type"]
    IN IF IsKind(itemType, "barometer") THEN readBaro(reg, desc, element, elId)
       ELSE IF IsKind(itemType, "thermometer") THEN readTemp(reg, desc, element, elId, variant)
       ELSE IF IsKind(itemType, "battery")
       THEN The({IF r.st # "ok" \/ variant = "raw" THEN r
                 ELSE readBattNameVoltage(reg, r.desc, element, elId) :
                 r \in {readBatt(reg, desc, element, elId, variant)}})
       ELSE IF IsKind(itemType, "ohm") THEN readOhm(reg, desc, element, elId)
       ELSE IF IsKind(itemType, "volt") THEN readVolt(reg, desc, element, elId)
       ELSE IF IsKind(itemType, "current") THEN readCurrent(reg, desc, element, elId)
       ELSE IF IsKind(itemType, "tank") THEN readTank(reg, desc, element, elId)
       ELSE IF IsKind(itemType, "inclinometer")
       THEN readIncline(reg, desc, element, elId, variant)
       ELSE Read("ok", desc)

\* The two objects of the program that hold sensor descriptors: the registry
\* sensorList and the copy the name sensorListTmp is bound to. store[r] is the
\* value of object r; a name holds a reference.
RegistryRef == 1
CopyRef == 2

\* a faulty copy: the name is bound to the object itself (sensorListTmp =
\* sensorList); C7 tells it from deepcopy
AliasCopy(store, ref) == [ref |-> ref, store |-> store]

\* copy.deepcopy(store[ref]) into the copy object: the new reference and the
\* store after it
deepcopy(store, ref) ==
    [ref |-> CopyRef, store |-> [store EXCEPT ![CopyRef] = store[ref]]]

\* for item in sensorList: the registry is read, the object behind tmpRef is
\* written; st is "ok" or the exception of the first sensor that fails, and
\* done counts the sensors decoded before it
RECURSIVE DispatchFrom(_, _, _, _, _)
DispatchFrom(store, tmpRef, element, variant, i) ==
    IF i > Len(store[RegistryRef]) THEN [st |-> "ok", store |-> store, done |-> i - 1]
    ELSE The({IF r.st # "ok"
              THEN [st |-> r.st, done |-> i - 1,
                    store |-> [store EXCEPT ![tmpRef][i].desc = r.desc]]
              ELSE DispatchFrom([store EXCEPT ![tmpRef][i].desc = r.desc],
                                tmpRef, element, variant, i + 1) :
              r \in {ReadSensor(store[RegistryRef][i].desc, store[tmpRef][i].desc,
                                element, variant)}})

Dispatch(store, tmpRef, element, variant) ==
    DispatchFrom(store, tmpRef, element, variant, 1)

\* ------------------------------------------------------------------------
\* Output assembly of pico-json.py
\* ------------------------------------------------------------------------
GetOr(d, key, default) == IF key \in DOMAIN d THEN d[key] ELSE default

\* the keys of `values` that are present and not None, under their output names
ValueKeys ==
    <<"voltage", "pressure", "temperature", "current", "capacity.remaining",
      "currentLevel", "remainingCapacity", "percentage", "pitch", "roll">>
Filtered(sensorData) ==
    {ValueKeys[i] : i \in {j \in 1..Len(ValueKeys) :
        ValueKeys[j] \in DOMAIN sensorData /\ sensorData[ValueKeys[j]].k # "none"}}

\* `name` is truthy: a non-empty text (or list)
Truthy(v) == (v.k = "str" /\ v.s # <<>>) \/ v.k = "list"
\* '[' not in name
NoBracket(v) == v.k = "list" \/ \A i \in 1..Len(v.s) : v.s[i] # 91

EmptyOutput ==
    [barometer |-> EmptyDict, pitch |-> NoneV, roll |-> NoneV,
     voltage |-> EmptyDict, current |-> EmptyDict, temperature |-> EmptyDict,
     tank |-> EmptyDict, battery |-> EmptyDict]

\* what one sensor of the copy adds to the output; a list used as a dict key
\* raises TypeError (unhashable)
AddSensor(output, sensorData) ==
    LET name == GetOr(sensorData, "name", NoneV)
        f == Filtered(sensorData)
        type == sensorData["type"]
        keyed == \E kd \in {"volt", "current", "thermometer", "tank", "battery"} :
                    IsKind(type, kd)
    IN IF ~(Truthy(name) /\ f # {} /\ NoBracket(name)) THEN Res("ok", output)
       ELSE IF keyed /\ name.k = "list" THEN Res("TypeError", output)
       ELSE IF IsKind(type, "barometer")
       THEN Res("ok", [output EXCEPT !.barometer = sensorData["pressure"]])
       ELSE IF IsKind(type, "inclinometer")
       THEN Res("ok", [output EXCEPT
                !.pitch = IF "pitch" \in f THEN sensorData["pitch"] ELSE @,
                !.roll = IF "roll" \in f THEN sensorData["roll"] ELSE @])
       ELSE IF IsKind(type, "volt")
       THEN Res("ok", [output EXCEPT !.voltage = DictSet(@, name, sensorData["voltage"])])
       ELSE IF IsKind(type, "current")
       THEN Res("ok", [output EXCEPT !.current = DictSet(@, name, sensorData["current"])])
       ELSE IF IsKind(type, "thermometer")
       THEN Res("ok", [output EXCEPT
                !.temperature = DictSet(@, name, sensorData["temperature"])])
       ELSE IF IsKind(type, "tank")
       THEN Res("ok", [output EXCEPT !.tank = DictSet(@, name,
                [capacity_nominal |-> GetOr(sensorData, "capacity", NoneV),
                 capacity_remaining |-> GetOr(sensorData, "remainingCapacity", NoneV),
                 percentage |-> Round(GetOr(sensorData, "percentage", IntV(0)))])])
       ELSE IF IsKind(type, "battery")
       THEN Res("ok", [output EXCEPT
                !.battery = DictSet(@, name,
                    [capacity_nominal |-> GetOr(sensorData, "capacity.nominal", NoneV),
                     capacity_remaining |-> GetOr(sensorData, "capacity.remaining", NoneV),
                     state_of_charge |-> GetOr(sensorData, "stateOfCharge", NoneV),
                     current |-> GetOr(sensorData, "current", NoneV),
                     voltage |-> GetOr(sensorData, "voltage", NoneV)]),
                !.voltage = DictSet(@, name, sensorData["voltage"])])
       ELSE Res("ok", output)

RECURSIVE OutputFrom(_, _, _)
OutputFrom(tmp, i, output) ==
    IF i > Len(tmp) THEN Res("ok", output)
    ELSE LET r == AddSensor(output, tmp[i].desc)
         IN IF r.st # "ok" THEN r ELSE OutputFrom(tmp, i + 1, r.v)

\* the document printed for one cycle (its "time" member, the wall clock, is
\* left out)
Output(tmp) == OutputFrom(tmp, 1, EmptyOutput)

\* ------------------------------------------------------------------------
\* The device: what it answers over TCP and what it broadcasts over UDP
\* ------------------------------------------------------------------------
\* Wire images of the three field layouts getNextField reads.
Hi(n) == n \div 256
Lo(n) == n % 256
F1(nr, a, b) == <<nr, 1, Hi(a), Lo(a), Hi(b), Lo(b), 255>>
F3(nr, a, b) == <<nr, 3, 0, 0, 0, 0, 0, Hi(a), Lo(a), Hi(b), Lo(b), 255>>
F4(nr, text) == <<nr, 4, 0, 0, 0, 0, 0>> \o text \o <<0, 255>>
\* a field of a type the decoder does not know
FOther(nr, type) == <<nr, type, 0, 0, 0, 0, 255>>
\* the 14 header bytes parseResponse strips; byte 6 carries the frame marker
Header(marker) == <<0, 0, 0, 0, 0, 255, marker, 4, 140, 85, 75, 0, 3, 255>>
MarkerB == 176
MarkerOther == 1

RECURSIVE Flatten(_)
Flatten(ss) == IF ss = <<>> THEN <<>> ELSE Head(ss) \o Flatten(Tail(ss))

NameInternal == <<80, 73, 67, 79, 32, 73, 78, 84, 69, 82, 78, 65, 76>>

\* The sensor layouts a device may be configured with: for each, the answers
\* to "describe slot 0, 1, ..".
Layouts ==
    << \* 1: internal volt channel (6 slots), battery (5), tank, inclinometer
       << Header(MarkerB) \o F1(0, 0, 1) \o F1(1, 0, 1) \o F4(3, NameInternal),
          Header(MarkerB) \o F1(0, 0, 2) \o F1(1, 0, 9) \o F4(3, <<66, 49>>)
              \o F1(5, 0, 100),
          Header(MarkerB) \o F1(0, 0, 3) \o F1(1, 0, 8) \o F4(3, <<84, 49>>)
              \o F1(6, 0, 1) \o F3(7, 0, 1000),
          Header(MarkerB) \o F1(0, 0, 4) \o F1(1, 0, 13) \o F1(3, 0, 1) >>,
       \* 2: an unused slot, thermometer, current, barometer, ohm, unknown kind
       << Header(MarkerB) \o F1(0, 0, 1) \o F1(1, 0, 0),
          Header(MarkerB) \o F1(0, 0, 2) \o F1(1, 0, 3) \o F4(3, <<84, 50>>),
          Header(MarkerB) \o F1(0, 0, 3) \o F1(1, 0, 2) \o F4(3, <<67, 49>>),
          Header(MarkerB) \o F1(0, 0, 4) \o F1(1, 0, 5) \o F4(3, <<66, 65>>),
          Header(MarkerB) \o F1(0, 0, 5) \o F1(1, 0, 6) \o F4(3, <<79, 49>>),
          Header(MarkerB) \o F1(0, 0, 6) \o F1(1, 0, 7) >>,
       \* 3: a description that holds a field of unknown type
       << Header(MarkerB) \o F1(0, 0, 1) \o FOther(2, 2) \o F1(1, 0, 1) >>,
       \* 4: a tank whose fluid index is outside the table
       << Header(MarkerB) \o F1(0, 0, 1) \o F1(1, 0, 8) \o F4(3, <<84, 49>>)
              \o F1(6, 0, 7) \o F1(7, 0, 1000) >> >>

\* the answer to "how many": the highest slot index at byte 19
CountResponse(m) == [i \in 1..19 |-> 0] \o <<m, 255, 0, 0>>

\* a telemetry frame: one type-1 field per slot 0..n-1 with the values vals[k]
RECURSIVE Slots(_, _)
Slots(vals, k) ==
    IF k > Len(vals) THEN <<>>
    ELSE (IF vals[k] = <<>> THEN <<>> ELSE F1(k - 1, vals[k][1], vals[k][2]))
         \o Slots(vals, k + 1)

SlotValues ==
    << <<0, 12500>>, <<0, 1>>, <<0, 2>>, <<0, 3>>, <<0, 4>>, <<0, 5>>,
       <<8000, 6>>, <<0, 500>>, <<0, 12500>>, <<0, 9>>, <<0, 10>>,
       <<500, 250>>, <<0, 15>>, <<0, 13>> >>
SlotValues2 ==
    [SlotValues EXCEPT ![1] = <<0, 13100>>, ![7] = <<65535, 6>>, ![8] = <<0, 65035>>,
                       ![13] = <<0, 65500>>]

\* The datagrams that may be broadcast.
Datagrams ==
    << \* 1, 2: frames with every slot
       Header(MarkerB) \o Slots(SlotValues, 1),
       Header(MarkerB) \o Slots(SlotValues2, 1),
       \* 3: slot 7 has a field of unknown type
       Header(MarkerB) \o Slots(SubSeq(SlotValues, 1, 7), 1) \o FOther(7, 2)
           \o Slots([k \in 1..14 |-> IF k <= 8 THEN <<>> ELSE SlotValues[k]], 1),
       \* 4: slot 11 is missing
       Header(MarkerB) \o Slots([SlotValues EXCEPT ![12] = <<>>], 1) \o F1(20, 0, 0),
       \* 5: too short (50 bytes)
       Header(MarkerB) \o [i \in 1..36 |-> 0],
       \* 6: every slot, but another frame marker
       Header(MarkerOther) \o Slots(SlotValues, 1),
       \* 7: too long (1000 bytes)
       Header(MarkerB) \o [i \in 1..986 |-> 0],
       \* 8: a text field that is cut off before its 00
       Header(MarkerB) \o Slots(SubSeq(SlotValues, 1, 13), 1)
           \o <<13, 4, 0, 0, 0, 0, 0, 65, 66>> >>

\* ------------------------------------------------------------------------
\* Bounds
\* ------------------------------------------------------------------------
\* datagrams broadcast in one run
MaxArrivals == 3

\* ------------------------------------------------------------------------
\* Configuration session: open_tcp, send_receive, get_pico_config
\* ------------------------------------------------------------------------
max_retries == 5

\* a faulty loop condition that allows one attempt more; C5 tells it from
\* OpenTcpContinues
OpenTcpOneMore(retries, s) == retries <= max_retries /\ s = "none"

\* while retries < max_retries and not s
OpenTcpContinues(retries, s) == retries < max_retries /\ s = "none"

\* a text of hex pairs, one per byte, with single blanks between them
HexText(bytes) == StripRight(AsSeq(BinToHex(bytes)))

\* the message texts of get_pico_config
CountMessage == HexText(<<0, 0, 0, 0, 0, 255, 2, 4, 140, 85, 75, 0, 3, 255>>)
DescribeHead == HexText(<<0, 0, 0, 0, 0, 255, 65, 4, 140, 85, 75, 0, 22, 255, 0, 1, 0, 0, 0>>)
DescribeTail == HexText(<<255, 1, 3, 0, 0, 0, 0, 255, 0, 0, 0, 0, 255>>)
DescribeMessage(pos) == DescribeHead \o <<" ">> \o FormatHex(pos) \o <<" ">> \o DescribeTail

\* str.split(): the maximal runs of non-blank characters; b holds the
\* positions where a word begins, e those where one ends
Split(str) ==
    LET n == Len(str)
        idx == AsSeq([i \in 1..n |-> i])
        b == SelectSeq(idx, LAMBDA i : str[i] # " " /\ (i = 1 \/ str[i - 1] = " "))
        e == SelectSeq(idx, LAMBDA i : str[i] # " " /\ (i = n \/ str[i + 1] = " "))
    IN AsSeq([k \in 1..Len(b) |-> SubSeq(str, b[k], e[k])])

\* add_crc: what the checksum is taken of. fields = message.split();
\* message_int = [int(x, 16) for x in fields[1:]]; message_int[0:-1]
ChecksumInput(message) ==
    LET fields == Split(message)
        message_int == AsSeq([i \in 1..(Len(fields) - 1) |-> PyInt16(fields[i + 1])])
    IN Slice(message_int, 0, Len(message_int) - 1)

\* add_crc: the message with the checksum of its bytes appended as two more
\* hex pairs. brainsmoke.calc_rev_crc16 is not among the sources: crc16 is
\* the function it computes, an input of the run.
add_crc(message, crc16) ==
    LET crc_int == crc16[ChecksumInput(message)]
    IN message \o <<" ">> \o hexdump(crc_int)

\* the commands, as the bytes send_receive writes: bytearray.fromhex(message)
CountCommand(crc16) == FromHex(add_crc(CountMessage, crc16))
DescribeCommand(pos, crc16) == FromHex(add_crc(DescribeMessage(pos), crc16))
IsDescribe(message) == message[7] = 65
SlotOf(message) == message[20]

\* what the device answers to a command
DescribeAnswer(dv, slot) ==
    IF slot < Len(Layouts[dv]) THEN Layouts[dv][slot + 1] ELSE Header(MarkerB)
DeviceAnswer(dv, message) ==
    IF ~IsDescribe(message) THEN CountResponse(Len(Layouts[dv]) - 1)
    ELSE DescribeAnswer(dv, SlotOf(message))

\* parseResponse of what send_receive returns for the answer to "describe
\* slot k - 1", for every device and slot (the last entry: a slot the device
\* does not have), and of BinToHex(message) for every datagram; each decoding
\* is computed once
ParsedAnswers ==
    AsSeq([dv \in 1..Len(Layouts) |->
        AsSeq([k \in 1..(Len(Layouts[dv]) + 1) |->
            parseResponse(BinToHex(DescribeAnswer(dv, k - 1)))])])
ParsedDatagrams ==
    AsSeq([d \in 1..Len(Datagrams) |-> parseResponse(BinToHex(Datagrams[d]))])

\* a faulty count that takes the reported index for the number of slots; C6
\* tells it from ReqCount
ReqCountNoIncrement(response) ==
    LET t == Split(response)
    IN IF Len(t) < 20 THEN Res("IndexError", 0) ELSE Res("ok", PyInt16(t[20]))

\* req_count = int(response.split()[19], 16) + 1; IndexError when the
\* response has fewer than 20 bytes
ReqCount(response) ==
    LET t == Split(response)
    IN IF Len(t) < 20 THEN Res("IndexError", 0) ELSE Res("ok", PyInt16(t[20]) + 1)

\* a faulty poll that never reports the socket readable; C8 tells it from
\* SelectReady
NeverReady(udp) == FALSE

\* the messages get_pico_config hands to add_crc: the count message and the
\* describe message of every slot a device has
Messages ==
    {CountMessage} \cup
    {DescribeMessage(p) : p \in {k \in 0..255 : \E dv \in 1..Len(Layouts) : k < Len(Layouts[dv])}}
RECURSIVE Sum(_)
Sum(seq) == IF seq = <<>> THEN 0 ELSE Head(seq) + Sum(Tail(seq))
\* Functions calc_rev_crc16 may be, on the bytes of those messages: each has
\* values of 16 bits and tells messages that differ in one byte apart. Under
\* the first the count command gets a checksum of two hex digits (5) and
\* the describe commands get one of three; under the second all get four.
Seeds == {64977, 4660}
Checksums ==
    {[data \in {ChecksumInput(message) : message \in Messages} |-> (seed + Sum(data)) % 65536] :
        seed \in Seeds}

\* select.select([sock], [], [], 0.0) finds the socket readable
SelectReady(udp) == udp # <<>>

\* the validity gate of the main loop: pico-json.py checks length and marker;
\* pico-raw.py waits for a datagram of the right length and parses it
\* whatever the marker
LengthOk(message) == Len(message) > 100 /\ Len(message) < 1000
MarkerOk(message) == BinToHex(message)[19] = "b"
Accepted(message, variant) ==
    IF variant = "json" THEN LengthOk(message) /\ MarkerOk(message)
    ELSE LengthOk(message)

\* ------------------------------------------------------------------------
\* State
\* ------------------------------------------------------------------------
VARIABLES
    variant,    \* "json" (pico-json.py) or "raw" (pico-raw.py)
    device,     \* the layout the device is configured with
    calc_rev_crc16,  \* brainsmoke.calc_rev_crc16: the checksum of each command's bytes
    pc,         \* where the script is
    err,        \* the uncaught exception that ended it ("" while running)
    errAt,      \* the function the exception left
    arrivals,   \* datagrams broadcast so far
    udp,        \* the datagrams queued on the UDP socket: [id, d], the d-th of
                \* Datagrams, broadcast as number id
    retries,    \* open_tcp's counter
    attempts,   \* calls of socket.create_connection
    s,          \* the TCP socket: "none", "open", "closed"
    sent,       \* the commands written to the TCP socket
    inflight,   \* commands the device has not answered yet
    req_count,  \* get_pico_config's req_count
    pos,        \* get_pico_config's loop variable
    config,     \* the raw config records, in key order 0, 1, ..
    built,      \* what createSensorList did: st, and pos and size per record
    store,      \* the objects sensorList (store[1]) and its copy (store[2])
    tmpRef,     \* the object the name sensorListTmp is bound to
    cur,        \* the datagram in `message`
    element,    \* the field mapping of the frame being decoded
    output,     \* the last document printed
    outputs,    \* documents printed
    decoded,    \* the datagrams handed to parseResponse
    atDrain,    \* ids queued on the UDP socket when empty_socket was called
    cycle,      \* the steps of the current loop pass
    fbuf,       \* getNextField's argument
    fpc,        \* where getNextField is
    sc,         \* the text scan: response, word, nextHex
    fres,       \* what getNextField returned
    presp,      \* parseResponse's response: what is left to decode
    pdict,      \* parseResponse's dict
    plog        \* the calls of getNextField in parseResponse: the length of
                \* the response passed, and what came back

vars == <<variant, device, calc_rev_crc16, pc, err, errAt, arrivals, udp, retries, attempts, s, sent,
          inflight, req_count, pos, config, built, store, tmpRef, cur, element,
          output, outputs, decoded, atDrain, cycle, fbuf, fpc, sc, fres,
          presp, pdict, plog>>

netVars == <<arrivals, udp>>
tcpVars == <<retries, attempts, s, sent, inflight, req_count, pos, config>>
loopVars == <<store, tmpRef, cur, element, output, outputs, decoded, atDrain, cycle>>
parseVars == <<presp, pdict, plog>>
fieldVars == <<fbuf, fpc, sc, fres, parseVars>>

sensorList == store[RegistryRef]
sensorListTmp == store[tmpRef]

NoBuild == [st |-> "", list |-> <<>>, elementPos |-> 0, pos |-> <<>>, size |-> <<>>]
NoScan == [response |-> <<>>, word |-> <<>>, nextHex |-> <<>>]
NoField == FieldResult("", 0, NoneV, <<>>)
NoDatagram == [id |-> 0, d |-> 0]

\* the script has just bound the UDP socket
Init ==
    /\ variant \in {"json", "raw"}
    /\ device \in 1..Len(Layouts)
    /\ calc_rev_crc16 \in Checksums
    /\ pc = "discover"
    /\ err = "" /\ errAt = ""
    /\ arrivals = 0 /\ udp = <<>>
    /\ retries = 0 /\ attempts = 0 /\ s = "none"
    /\ sent = <<>> /\ inflight = <<>> /\ req_count = 0 /\ pos = 0 /\ config = <<>>
    /\ built = NoBuild
    /\ store = <<<<>>, <<>>>> /\ tmpRef = CopyRef
    /\ cur = NoDatagram /\ element = EmptyDict /\ output = NoneV /\ outputs = 0
    /\ decoded = {} /\ atDrain = {} /\ cycle = <<>>
    /\ fbuf = <<>> /\ fpc = "idle" /\ sc = NoScan /\ fres = NoField
    /\ presp = <<>> /\ pdict = EmptyDict /\ plog = <<>>

Running == pc \notin {"crashed", "hung", "exited"}

Crash(exc, where) == pc' = "crashed" /\ err' = exc /\ errAt' = where

\* the device broadcasts a datagram
Arrive ==
    /\ Running
    /\ arrivals < MaxArrivals
    /\ arrivals' = arrivals + 1
    /\ \E d \in 1..Len(Datagrams) : udp' = Append(udp, [id |-> arrivals + 1, d |-> d])
    /\ UNCHANGED <<variant, device, calc_rev_crc16, pc, err, errAt, built>>
    /\ UNCHANGED <<tcpVars, loopVars, fieldVars>>

\* message, addr = client.recvfrom(2048): the first datagram names the device
Discover ==
    /\ pc = "discover"
    /\ udp # <<>>
    /\ udp' = Tail(udp)
    /\ pc' = "connect"
    /\ UNCHANGED <<variant, device, calc_rev_crc16, err, errAt, arrivals, built>>
    /\ UNCHANGED <<tcpVars, loopVars, fieldVars>>

\* one pass of open_tcp's loop; ok is whether create_connection succeeds.
\* The loop is left with the socket on success and with None when the retries
\* are used up.
OpenTcp ==
    /\ pc = "connect"
    /\ OpenTcpContinues(retries, s)
    /\ attempts' = attempts + 1
    /\ \E ok \in BOOLEAN :
          IF ok THEN s' = "open" /\ retries' = retries /\ pc' = "count"
          ELSE /\ s' = "none"
               /\ retries' = retries + 1
               /\ pc' = IF OpenTcpContinues(retries + 1, "none") THEN "connect" ELSE "count"
    /\ UNCHANGED <<variant, device, calc_rev_crc16, err, errAt, built, sent, inflight, req_count, pos, config>>
    /\ UNCHANGED <<netVars, loopVars, fieldVars>>

\* send_receive, first half: s.sendall(message). On None it raises
\* AttributeError before anything is written.
SendCount ==
    /\ pc = "count"
    /\ IF s = "open"
       THEN /\ \E message \in {CountCommand(calc_rev_crc16)} :
                   sent' = Append(sent, message) /\ inflight' = Append(inflight, message)
            /\ pc' = "count_recv"
            /\ UNCHANGED <<err, errAt>>
       ELSE /\ Crash("AttributeError", "send_receive")
            /\ UNCHANGED <<sent, inflight>>
    /\ UNCHANGED <<variant, device, calc_rev_crc16, built, retries, attempts, s, req_count, pos, config>>
    /\ UNCHANGED <<netVars, loopVars, fieldVars>>

\* send_receive, second half, and the line after it: the answer gives req_count
RecvCount ==
    /\ pc = "count_recv"
    /\ inflight # <<>>
    /\ LET response == BinToHex(DeviceAnswer(device, Head(inflight)))
           n == ReqCount(response)
       IN IF n.st = "ok"
          THEN /\ req_count' = n.v
               /\ pc' = "enum"
               /\ UNCHANGED <<err, errAt>>
          ELSE /\ Crash(n.st, "get_pico_config")
               /\ UNCHANGED req_count
    /\ inflight' = Tail(inflight)
    /\ pos' = 0
    /\ UNCHANGED <<variant, device, calc_rev_crc16, built, retries, attempts, s, sent, config>>
    /\ UNCHANGED <<netVars, loopVars, fieldVars>>

\* for pos in range(req_count): send the "describe slot" command; after the
\* last slot, s.close() and return config
SendDescribe ==
    /\ pc = "enum"
    /\ IF pos < req_count
       THEN /\ \E message \in {DescribeCommand(pos, calc_rev_crc16)} :
                   sent' = Append(sent, message) /\ inflight' = Append(inflight, message)
            /\ pc' = "enum_recv"
            /\ s' = s
       ELSE /\ s' = "closed"
            /\ pc' = "build"
            /\ UNCHANGED <<sent, inflight>>
    /\ UNCHANGED <<variant, device, calc_rev_crc16, err, errAt, built, retries, attempts, req_count, pos, config>>
    /\ UNCHANGED <<netVars, loopVars, fieldVars>>

\* the answer is decoded and stored: config[pos] = parseResponse(response),
\* response being BinToHex(DeviceAnswer(device, Head(inflight)))
RecvDescribe ==
    /\ pc = "enum_recv"
    /\ inflight # <<>>
    /\ LET r == ParsedAnswers[device][Min(SlotOf(Head(inflight)), Len(Layouts[device])) + 1]
       IN IF r.st = "ok"
          THEN /\ config' = Append(config, r.dict)
               /\ pos' = pos + 1
               /\ pc' = "enum"
               /\ UNCHANGED <<err, errAt>>
          ELSE /\ IF r.st = "Hang" THEN pc' = "hung" /\ UNCHANGED <<err, errAt>>
                  ELSE Crash(r.st, "parseResponse")
               /\ UNCHANGED <<config, pos>>
    /\ inflight' = Tail(inflight)
    /\ UNCHANGED <<variant, device, calc_rev_crc16, built, retries, attempts, s, sent, req_count>>
    /\ UNCHANGED <<netVars, loopVars, fieldVars>>

\* s.recv raises (the connection broke): nothing catches it
TcpError ==
    /\ pc \in {"count_recv", "enum_recv"}
    /\ Crash("OSError", "send_receive")
    /\ UNCHANGED <<variant, device, calc_rev_crc16, built>>
    /\ UNCHANGED <<netVars, tcpVars, loopVars, fieldVars>>

\* sensorList = createSensorList(config); pico-raw.py then takes its one copy
Build ==
    /\ pc = "build"
    /\ LET r == createSensorList(config, variant)
           c == deepcopy([store EXCEPT ![RegistryRef] = r.list], RegistryRef)
       IN /\ built' = r
          /\ IF r.st # "ok"
             THEN Crash(r.st, "createSensorList") /\ UNCHANGED <<store, tmpRef>>
             ELSE /\ pc' = IF variant = "raw" THEN "recv" ELSE "loop"
                  /\ UNCHANGED <<err, errAt>>
                  /\ IF variant = "raw" THEN store' = c.store /\ tmpRef' = c.ref
                     ELSE store' = [store EXCEPT ![RegistryRef] = r.list]
                          /\ UNCHANGED tmpRef
    /\ UNCHANGED <<variant, device, calc_rev_crc16, cur, element, output, outputs, decoded, atDrain, cycle>>
    /\ UNCHANGED <<netVars, tcpVars, fieldVars>>

\* pico-json.py, the top of `while True`: updates = [] and
\* sensorListTmp = copy.deepcopy(sensorList); the script then waits in recvfrom
CopyRegistry ==
    /\ pc = "loop"
    /\ \E c \in {deepcopy(store, RegistryRef)} : store' = c.store /\ tmpRef' = c.ref
    /\ pc' = "recv"
    /\ cycle' = <<>>
    /\ UNCHANGED <<variant, device, calc_rev_crc16, err, errAt, built, cur, element, output, outputs,
                   decoded, atDrain>>
    /\ UNCHANGED <<netVars, tcpVars, fieldVars>>

\* client.recvfrom(2048) returns the next datagram (the socket has no timeout:
\* the call waits until one is queued), then the validity gate. pico-json.py
\* checks length and marker and goes back to the top of the loop when either
\* fails; pico-raw.py calls recvfrom again until the length fits.
Recv ==
    /\ pc = "recv"
    /\ udp # <<>>
    /\ cur' = Head(udp)
    /\ udp' = Tail(udp)
    /\ IF Accepted(Datagrams[Head(udp).d], variant)
       THEN pc' = "parse" /\ cycle' = <<"recv">>
       ELSE /\ pc' = IF variant = "json" THEN "loop" ELSE "recv"
            /\ cycle' = <<"recv", "drop">>
    /\ UNCHANGED <<variant, device, calc_rev_crc16, err, errAt, arrivals, built, store, tmpRef, element,
                   output, outputs, decoded, atDrain>>
    /\ UNCHANGED <<tcpVars, fieldVars>>

\* element = parseResponse(BinToHex(message))
Parse ==
    /\ pc = "parse"
    /\ LET r == ParsedDatagrams[cur.d]
       IN /\ decoded' = decoded \cup {cur}
          /\ IF r.st = "ok"
             THEN /\ element' = r.dict
                  /\ pc' = "dispatch"
                  /\ UNCHANGED <<err, errAt>>
             ELSE /\ IF r.st = "Hang" THEN pc' = "hung" /\ UNCHANGED <<err, errAt>>
                     ELSE Crash(r.st, "parseResponse")
                  /\ UNCHANGED element
    /\ cycle' = Append(cycle, "parse")
    /\ UNCHANGED <<variant, device, calc_rev_crc16, built, store, tmpRef, cur, output, outputs, atDrain>>
    /\ UNCHANGED <<netVars, tcpVars, fieldVars>>

\* for item in sensorList: the decode rule of its kind
DispatchSensors ==
    /\ pc = "dispatch"
    /\ \E r \in {Dispatch(store, tmpRef, element, variant)} :
          /\ store' = r.store
          /\ IF r.st = "ok" THEN pc' = "emit" /\ UNCHANGED <<err, errAt>>
             ELSE Crash(r.st, "dispatch")
    /\ cycle' = Append(cycle, "dispatch")
    /\ UNCHANGED <<variant, device, calc_rev_crc16, built, tmpRef, cur, element, output, outputs,
                   decoded, atDrain>>
    /\ UNCHANGED <<netVars, tcpVars, fieldVars>>

\* pico-json.py assembles and prints the document of the cycle; pico-raw.py
\* prints the copy and ends
Emit ==
    /\ pc = "emit"
    /\ \E r \in {IF variant = "json" THEN Output(sensorListTmp)
                 ELSE Res("ok", sensorListTmp)} :
          IF r.st = "ok"
          THEN /\ output' = r.v
               /\ outputs' = outputs + 1
               /\ pc' = IF variant = "json" THEN "sleep" ELSE "exited"
               /\ UNCHANGED <<err, errAt>>
          ELSE /\ Crash(r.st, "output")
               /\ UNCHANGED <<output, outputs>>
    /\ cycle' = Append(cycle, "emit")
    /\ UNCHANGED <<variant, device, calc_rev_crc16, built, store, tmpRef, cur, element, decoded, atDrain>>
    /\ UNCHANGED <<netVars, tcpVars, fieldVars>>

\* time.sleep(0.9); empty_socket(client) is called when it returns
Sleep ==
    /\ pc = "sleep"
    /\ pc' = "drain"
    /\ atDrain' = atDrain \cup {udp[i].id : i \in 1..Len(udp)}
    /\ cycle' = Append(cycle, "sleep")
    /\ UNCHANGED <<variant, device, calc_rev_crc16, err, errAt, built, store, tmpRef, cur, element,
                   output, outputs, decoded>>
    /\ UNCHANGED <<netVars, tcpVars, fieldVars>>

\* one pass of empty_socket's loop: a readable socket loses one datagram
\* (s.recv(1) takes it off the queue), otherwise the loop is left
EmptySocket ==
    /\ pc = "drain"
    /\ IF SelectReady(udp)
       THEN udp' = Tail(udp) /\ UNCHANGED <<pc, cycle>>
       ELSE pc' = "loop" /\ cycle' = Append(cycle, "drain") /\ UNCHANGED udp
    /\ UNCHANGED <<variant, device, calc_rev_crc16, err, errAt, arrivals, built, store, tmpRef, cur,
                   element, output, outputs, decoded, atDrain>>
    /\ UNCHANGED <<tcpVars, fieldVars>>

Next ==
    \/ Arrive \/ Discover
    \/ OpenTcp \/ SendCount \/ RecvCount \/ SendDescribe \/ RecvDescribe \/ TcpError
    \/ Build
    \/ CopyRegistry \/ Recv \/ Parse \/ DispatchSensors \/ Emit \/ Sleep \/ EmptySocket

Spec == Init /\ [][Next]_vars

\* ------------------------------------------------------------------------
\* createSensorList on its own: every sequence of raw config records
\* ------------------------------------------------------------------------
\* raw config records in one call
MaxRecords == 3

\* a record with its id in field 0 and its type code in field 1
RecordOf(id, code) == DictSet(DictSet(EmptyDict, 0, ListV(0, id)), 1, ListV(0, code))

\* Records parseResponse can return for a "describe slot" answer: every kind,
\* an unrecognized code, and records with a field missing, a field that is a
\* text where a pair is read, and a field that is Absent ('')
RawRecords ==
    << RecordOf(1, 0),
       DictSet(RecordOf(2, 1), 3, PicoInternal),
       DictSet(RecordOf(3, 1), 3, StrV(<<86, 49>>)),
       DictSet(RecordOf(4, 2), 3, StrV(<<67, 49>>)),
       DictSet(DictSet(RecordOf(5, 9), 3, StrV(<<66, 49>>)), 5, ListV(0, 100)),
       DictSet(DictSet(DictSet(RecordOf(6, 8), 3, StrV(<<84, 49>>)), 6, ListV(0, 1)),
               7, ListV(0, 1000)),
       DictSet(RecordOf(7, 13), 3, ListV(0, 1)),
       RecordOf(8, 7),
       DictSet(DictSet(DictSet(RecordOf(9, 8), 3, StrV(<<84, 50>>)), 6, ListV(0, 7)),
               7, ListV(0, 100)),
       RecordOf(10, 3),
       DictSet(DictSet(DictSet(RecordOf(11, 8), 3, StrV(<<84, 51>>)), 6, ListV(0, 1)),
               7, StrV(<<65, 66>>)),
       DictSet(DictSet(EmptyDict, 0, ListV(0, 12)), 1, StrV(<<>>)) >>

Configs ==
    UNION {[1..n -> {RawRecords[i] : i \in 1..Len(RawRecords)}] : n \in 0..MaxRecords}

\* get_pico_config has returned some config
InitRegistry ==
    /\ variant \in {"json", "raw"}
    /\ device = 1
    /\ calc_rev_crc16 = CHOOSE crc16 \in Checksums : TRUE
    /\ pc = "build"
    /\ err = "" /\ errAt = ""
    /\ arrivals = 0 /\ udp = <<>>
    /\ retries = 0 /\ attempts = 0 /\ s = "closed"
    /\ sent = <<>> /\ inflight = <<>> /\ req_count = 0 /\ pos = 0
    /\ config \in Configs
    /\ built = NoBuild
    /\ store = <<<<>>, <<>>>> /\ tmpRef = CopyRef
    /\ cur = NoDatagram /\ element = EmptyDict /\ output = NoneV /\ outputs = 0
    /\ decoded = {} /\ atDrain = {} /\ cycle = <<>>
    /\ fbuf = <<>> /\ fpc = "idle" /\ sc = NoScan /\ fres = NoField
    /\ presp = <<>> /\ pdict = EmptyDict /\ plog = <<>>

SpecRegistry == InitRegistry /\ [][Build]_vars

\* ------------------------------------------------------------------------
\* getNextField on a text field, one loop iteration per step
\* ------------------------------------------------------------------------
\* bytes of text in a field
MaxText == 3

TextBytes == {65, 66}
Texts == UNION {[1..n -> TextBytes] : n \in 0..MaxText}
\* what follows the text: nothing (the buffer is cut off), a lone ff, the 00
\* terminator and the ff separator, and those followed by a further field
Tails == {<<>>, <<255>>, <<0, 255>>, <<0, 255, 5, 1, 0, 0, 0, 100, 255>>}

\* buffers whose field type is 4, as BinToHex yields them
FieldBuffers == {BinToHex(<<3, 4, 0, 0, 0, 0, 0>> \o text \o tail) :
                     text \in Texts, tail \in Tails}

InitField ==
    /\ variant = "json"
    /\ device = 1
    /\ calc_rev_crc16 = CHOOSE crc16 \in Checksums : TRUE
    /\ pc = "discover"
    /\ err = "" /\ errAt = ""
    /\ arrivals = 0 /\ udp = <<>>
    /\ retries = 0 /\ attempts = 0 /\ s = "none"
    /\ sent = <<>> /\ inflight = <<>> /\ req_count = 0 /\ pos = 0 /\ config = <<>>
    /\ built = NoBuild
    /\ store = <<<<>>, <<>>>> /\ tmpRef = CopyRef
    /\ cur = NoDatagram /\ element = EmptyDict /\ output = NoneV /\ outputs = 0
    /\ decoded = {} /\ atDrain = {} /\ cycle = <<>>
    /\ fbuf \in FieldBuffers /\ fpc = "call" /\ sc = NoScan /\ fres = NoField
    /\ presp = <<>> /\ pdict = EmptyDict /\ plog = <<>>

programVars == <<variant, device, calc_rev_crc16, pc, err, errAt, built, netVars, tcpVars, loopVars>>

\* field_type == 4: response = response[21:]; nextHex = response[0:2]; word = ''
FieldCall ==
    /\ fpc = "call"
    /\ sc' = ScanStart(fbuf)
    /\ fpc' = "scan"
    /\ UNCHANGED <<fbuf, fres, parseVars, programVars>>

\* while (nextHex != '00'): one iteration
FieldScan ==
    /\ fpc = "scan"
    /\ ScanContinues(sc)
    /\ sc' = ScanStep(sc)
    /\ UNCHANGED <<fbuf, fpc, fres, parseVars, programVars>>

\* the loop is left: word = HexToByte(word); response = response[6:]; return
FieldReturn ==
    /\ fpc = "scan"
    /\ ~ScanContinues(sc)
    /\ fres' = TextOf(PyInt16(Slice(fbuf, 0, 2)), sc)
    /\ fpc' = "done"
    /\ UNCHANGED <<fbuf, sc, parseVars, programVars>>

NextField == FieldCall \/ FieldScan \/ FieldReturn

SpecField == InitField /\ [][NextField]_vars

\* the stepwise run returns what getNextField returns
FieldStepsAgree == fpc = "done" => fres = getNextField(fbuf)

\* ------------------------------------------------------------------------
\* getNextField on numeric fields (type 1 and type 3), and their re-encoding
\* ------------------------------------------------------------------------
\* the numbers a 2-byte group may hold, and the field numbers
GroupValues == {0, 1, 255, 256, 32767, 65535}
FieldNumbers == {0, 5, 255}
\* the five bytes between the type and the payload of a type-3 field, which
\* getNextField skips
Fillers == {<<0, 0, 0, 0, 0>>, <<0, 0, 0, 0, 255>>, <<1, 2, 3, 4, 255>>}
\* what follows the field in the buffer
Rests == {<<>>, <<9, 1, 0, 0, 0, 7, 255>>}

Type1Field(nr, a, b) == <<nr, 1, Hi(a), Lo(a), Hi(b), Lo(b), 255>>
Type3Field(nr, filler, a, b) == <<nr, 3>> \o filler \o <<Hi(a), Lo(a), Hi(b), Lo(b), 255>>

\* buffers that begin with a valid type-1 or type-3 field, as BinToHex yields
\* them; a = 32767, b = 65535 is the sentinel payload 7f ff ff ff
NumericBuffers ==
    {BinToHex(Type1Field(nr, a, b) \o rest) :
        nr \in FieldNumbers, a \in GroupValues, b \in GroupValues, rest \in Rests}
    \cup
    {BinToHex(Type3Field(nr, f, a, b) \o rest) :
        nr \in FieldNumbers, f \in Fillers, a \in {0, 256, 32767}, b \in {1, 65535},
        rest \in Rests}

InitRoundTrip ==
    /\ variant = "json"
    /\ device = 1
    /\ calc_rev_crc16 = CHOOSE crc16 \in Checksums : TRUE
    /\ pc = "discover"
    /\ err = "" /\ errAt = ""
    /\ arrivals = 0 /\ udp = <<>>
    /\ retries = 0 /\ attempts = 0 /\ s = "none"
    /\ sent = <<>> /\ inflight = <<>> /\ req_count = 0 /\ pos = 0 /\ config = <<>>
    /\ built = NoBuild
    /\ store = <<<<>>, <<>>>> /\ tmpRef = CopyRef
    /\ cur = NoDatagram /\ element = EmptyDict /\ output = NoneV /\ outputs = 0
    /\ decoded = {} /\ atDrain = {} /\ cycle = <<>>
    /\ fbuf \in NumericBuffers /\ fpc = "call" /\ sc = NoScan /\ fres = NoField
    /\ presp = <<>> /\ pdict = EmptyDict /\ plog = <<>>

\* field_nr, field_data, response = getNextField(response)
FieldDecode ==
    /\ fpc = "call"
    /\ fres' = getNextField(fbuf)
    /\ fpc' = "done"
    /\ UNCHANGED <<fbuf, sc, parseVars, programVars>>

SpecRoundTrip == InitRoundTrip /\ [][FieldDecode]_vars

\* The encoder the round trip is stated with (the repository has none): a
\* pair as two 2-byte hex groups "aa bb cc dd", Absent as the sentinel
EncodeGroup(n) == Format02x(Hi(n)) \o <<" ">> \o Format02x(Lo(n))
EncodePayload(data) ==
    IF data.k = "list" THEN EncodeGroup(data.a) \o <<" ">> \o EncodeGroup(data.b)
    ELSE Sentinel
\* the field with number nr and value data in the layout of `type`: the
\* payload at offset 6 and 21 characters in all for type 1, at offset 21 and
\* 36 in all for type 3; `skipped` are the type-3 characters 6..20
EncodeField(nr, type, data, skipped) ==
    Format02x(nr) \o <<" ">> \o Format02x(type) \o <<" ">>
        \o (IF type = 3 THEN skipped ELSE <<>>)
        \o EncodePayload(data) \o <<" ", "f", "f", " ">>

\* ------------------------------------------------------------------------
\* The decode rules on their own: one registry, one decoded frame
\* ------------------------------------------------------------------------
\* field 7 of a tank record (the capacity times 10), the first and the second
\* number of a slot
TankCapacities == {0, 1, 1000}
FirstValues == {0, 500, 2496, 8000, 9200, 65535}
SecondValues ==
    {0, 1, 100, 545, 575, 1000, 24999, 25000, 25001, 32768, 65435, 65534, 65535}

TankRecord(c7) ==
    DictSet(DictSet(DictSet(RecordOf(6, 8), 3, StrV(<<84, 49>>)), 6, ListV(0, 1)),
            7, ListV(0, c7))
\* registries of one sensor: a tank of each capacity, a current sensor, a
\* battery, an inclinometer
DecodeConfigs ==
    {<<TankRecord(c7)>> : c7 \in TankCapacities}
        \cup {<<RawRecords[4]>>, <<RawRecords[5]>>, <<RawRecords[7]>>}

\* the frame: slot 0 holds [a, b], slot 1 [0, b], slot 2 a voltage
FrameOf(a, b) ==
    [k \in 0..2 |-> IF k = 0 THEN ListV(a, b)
                    ELSE IF k = 1 THEN ListV(0, b) ELSE ListV(0, 12500)]

\* the registry is built, a frame is accepted and parsed
InitDecode ==
    /\ variant \in {"json", "raw"}
    /\ device = 1
    /\ calc_rev_crc16 = CHOOSE crc16 \in Checksums : TRUE
    /\ pc = "dispatch"
    /\ err = "" /\ errAt = ""
    /\ arrivals = 0 /\ udp = <<>>
    /\ retries = 0 /\ attempts = 1 /\ s = "closed"
    /\ sent = <<>> /\ inflight = <<>> /\ req_count = 1 /\ pos = 1
    /\ config \in DecodeConfigs
    /\ built = createSensorList(config, variant)
    /\ store = <<built.list, built.list>> /\ tmpRef = CopyRef
    /\ cur = NoDatagram
    /\ element \in {FrameOf(a, b) : a \in FirstValues, b \in SecondValues}
    /\ output = NoneV /\ outputs = 0
    /\ decoded = {} /\ atDrain = {} /\ cycle = <<"recv", "parse">>
    /\ fbuf = <<>> /\ fpc = "idle" /\ sc = NoScan /\ fres = NoField
    /\ presp = <<>> /\ pdict = EmptyDict /\ plog = <<>>

SpecDecode == InitDecode /\ [][DispatchSensors \/ Emit]_vars

\* ------------------------------------------------------------------------
\* parseResponse, one loop iteration per step
\* ------------------------------------------------------------------------
\* fields in a response
MaxFields == 3

\* fields a response may hold: two with the same number, a type-3 and a text
ParseFields ==
    {F1(0, 0, 1), F1(0, 0, 2), F1(1, 0, 9), F3(2, 0, 7), F4(3, <<65, 66>>)}
\* the bytes after the last field: none, one, two (the checksum of a device
\* answer: exactly 6 characters) or three
Trailers == {<<>>, <<18>>, <<18, 52>>, <<18, 52, 86>>}

\* responses as BinToHex and send_receive yield them, and one that is shorter
\* than the header
Responses ==
    {BinToHex(Header(MarkerB) \o Flatten(fields) \o trailer) :
        fields \in UNION {[1..n -> ParseFields] : n \in 0..MaxFields},
        trailer \in Trailers}
    \cup {BinToHex(<<0, 0, 0>>)}

InitParse ==
    /\ variant = "json"
    /\ device = 1
    /\ calc_rev_crc16 = CHOOSE crc16 \in Checksums : TRUE
    /\ pc = "discover"
    /\ err = "" /\ errAt = ""
    /\ arrivals = 0 /\ udp = <<>>
    /\ retries = 0 /\ attempts = 0 /\ s = "none"
    /\ sent = <<>> /\ inflight = <<>> /\ req_count = 0 /\ pos = 0 /\ config = <<>>
    /\ built = NoBuild
    /\ store = <<<<>>, <<>>>> /\ tmpRef = CopyRef
    /\ cur = NoDatagram /\ element = EmptyDict /\ output = NoneV /\ outputs = 0
    /\ decoded = {} /\ atDrain = {} /\ cycle = <<>>
    /\ fbuf \in Responses /\ fpc = "call" /\ sc = NoScan /\ fres = NoField
    /\ presp = <<>> /\ pdict = EmptyDict /\ plog = <<>>

\* dict = {}; response = response[42:]
ParseCall ==
    /\ fpc = "call"
    /\ presp' = SliceFrom(fbuf, HeaderLen)
    /\ pdict' = EmptyDict
    /\ plog' = <<>>
    /\ fpc' = "loop"
    /\ UNCHANGED <<fbuf, sc, fres, programVars>>

\* one iteration: field_nr, field_data, response = getNextField(response);
\* dict[field_nr] = field_data. A getNextField that returns None or raises
\* ends parseResponse with the exception; one that never returns hangs it.
ParseField ==
    /\ fpc = "loop"
    /\ ParseContinues(presp)
    /\ LET f == getNextField(presp)
       IN /\ fres' = f
          /\ plog' = Append(plog, [len |-> Len(presp), st |-> f.st, nr |-> f.nr,
                                   data |-> f.data])
          /\ IF f.st = "ok"
             THEN /\ pdict' = DictSet(pdict, f.nr, f.data)
                  /\ presp' = f.rest
                  /\ fpc' = "loop"
             ELSE /\ fpc' = IF f.st = "Hang" THEN "hung" ELSE "raised"
                  /\ UNCHANGED <<pdict, presp>>
    /\ UNCHANGED <<fbuf, sc, programVars>>

\* the loop is left: return dict
ParseReturn ==
    /\ fpc = "loop"
    /\ ~ParseContinues(presp)
    /\ fpc' = "returned"
    /\ UNCHANGED <<fbuf, sc, fres, parseVars, programVars>>

NextParse == ParseCall \/ ParseField \/ ParseReturn

SpecParse == InitParse /\ [][NextParse]_vars

\* ------------------------------------------------------------------------
\* Claims
\* ------------------------------------------------------------------------
RECURSIVE SumTo(_, _)
SumTo(seq, n) == IF n = 0 THEN 0 ELSE seq[n] + SumTo(seq, n - 1)

\* C1 (as amended): for every sequence of raw config records the 'pos' given
\* to a record is the sum of the element sizes of the records before it; the
\* sequence of 'pos' values never decreases, and it grows from one record to
\* the next exactly when the earlier record has a size above 0 (a Null record
\* has size 0 and shares its 'pos' with its successor). Every 'pos' stored in
\* the registry is one of these.
C1_PosIsRunningSum ==
    /\ \A i \in 1..Len(built.pos) :
          /\ built.pos[i] = SumTo(built.size, i - 1)
          /\ i > 1 => /\ built.pos[i] >= built.pos[i - 1]
                      /\ (built.pos[i] > built.pos[i - 1]) <=> (built.size[i - 1] > 0)
    /\ \A k \in 1..Len(built.list) :
          \E i \in 1..Len(built.pos) : built.list[k].desc["pos"] = IntV(built.pos[i])

\* a Null record, a battery and one more record were built: pos 0, 0, 5
C1_Witness == built.st = "ok" /\ built.pos = <<0, 0, 5>> /\ Len(built.list) = 3

\* C1 as stated: 'pos' is the running sum of the sizes before it and the
\* sequence of 'pos' values is strictly increasing.
C1_PosStrictlyIncreasing ==
    /\ \A i \in 1..Len(built.pos) : built.pos[i] = SumTo(built.size, i - 1)
    /\ \A i, j \in 1..Len(built.pos) : i < j => built.pos[i] < built.pos[j]

\* C2 as stated: a field of a type other than 1, 3 or 4 makes parseResponse
\* return the fields decoded before it; in the telemetry loop of pico-json.py
\* the process does not crash there (no TypeError leaves parseResponse) and
\* goes on with the next datagram.
C2_UnknownFieldTypeNoCrash ==
    ~(/\ variant = "json" /\ cycle = <<"recv", "parse">>
      /\ pc = "crashed" /\ errAt = "parseResponse" /\ err = "TypeError")

\* C3 as stated: in pico-json.py a slot missing from an accepted frame only
\* omits the sensor that reads it; the dispatch does not end with KeyError,
\* the output of the cycle is emitted and the loop continues.
C3_MissingSlotOmitsSensor ==
    ~(/\ variant = "json" /\ cycle = <<"recv", "parse", "dispatch">>
      /\ pc = "crashed" /\ errAt = "dispatch" /\ err = "KeyError")

\* C4 as stated: a datagram is handed to parseResponse only if its length n
\* satisfies 100 < n < 1000 and character 18 of its hex form is 'b'; a datagram
\* that fails either check is dropped without error.
C4_GateBeforeDecode ==
    /\ \A c \in decoded : LengthOk(Datagrams[c.d]) /\ MarkerOk(Datagrams[c.d])
    /\ (cycle = <<"recv", "drop">> => pc = IF variant = "json" THEN "loop" ELSE "recv")

\* C5: open_tcp makes at most 5 attempts and none after the first success;
\* when all 5 fail nothing is ever sent on the TCP connection, no registry is
\* built and the telemetry loop never starts: the process ends in send_receive.
C5_OpenTcpBounded ==
    /\ attempts <= 5
    /\ attempts = retries + (IF s = "none" THEN 0 ELSE 1)
    /\ (s = "none" /\ pc \notin {"discover", "connect"}) =>
          /\ retries = 5
          /\ pc \in {"count", "crashed"}
          /\ pc = "crashed" => err = "AttributeError" /\ errAt = "send_receive"
          /\ sent = <<>> /\ config = <<>>
          /\ built = NoBuild /\ store = <<<<>>, <<>>>>
          /\ cycle = <<>> /\ decoded = {} /\ outputs = 0

\* five attempts failed and the process has ended
C5_Witness ==
    pc = "crashed" /\ attempts = 5 /\ s = "none" /\ err = "AttributeError"

\* the value m at byte index 19 of the device's answer to the count command
CountBytes == <<0, 0, 0, 0, 0, 255, 2, 4, 140, 85, 75, 0, 3, 255>>
ReportedMax == DeviceAnswer(device, CountBytes)[20]
DescribesSent == SelectSeq(sent, IsDescribe)
\* the bytes of the "describe slot p" template
DescribeBytes(p) ==
    <<0, 0, 0, 0, 0, 255, 65, 4, 140, 85, 75, 0, 22, 255, 0, 1, 0, 0, 0, p,
      255, 1, 3, 0, 0, 0, 0, 255, 0, 0, 0, 0, 255>>
\* the two bytes of the checksum of a command: calc_rev_crc16 of its bytes
\* without the first and the last, high byte first
CrcBytes(bytes) ==
    LET c == calc_rev_crc16[SubSeq(bytes, 2, Len(bytes) - 1)]
    IN <<c \div 256, c % 256>>

\* C6: with m the value reported at byte 19, the describe requests sent are
\* those for 0, 1, .. in this order, each followed by the two bytes of its
\* own checksum, and never more than m+1; a request is sent
\* only when every earlier answer is stored (at most one in flight); the
\* connection is closed only after m+1 answers are stored, and the config
\* returned has the keys 0..m.
C6_SequentialEnumeration ==
    /\ Len(DescribesSent) <= ReportedMax + 1
    /\ \A i \in 1..Len(DescribesSent) :
          DescribesSent[i] = DescribeBytes(i - 1) \o CrcBytes(DescribeBytes(i - 1))
    /\ sent # <<>> => sent[1] = CountBytes \o CrcBytes(CountBytes)
    /\ Len(inflight) <= 1
    /\ Len(config) <= Len(DescribesSent) /\ Len(DescribesSent) <= Len(config) + 1
    /\ pc = "enum" => Len(DescribesSent) = Len(config) /\ pos = Len(config)
    /\ s = "closed" =>
          /\ Len(DescribesSent) = ReportedMax + 1
          /\ Len(config) = ReportedMax + 1
          /\ inflight = <<>>
    /\ pc \in {"build", "loop", "recv", "parse", "dispatch", "emit", "sleep", "drain", "exited"}
          => s = "closed"

\* the device reported 3, four answers are stored and the connection is closed
C6_Witness ==
    ReportedMax = 3 /\ s = "closed" /\ Len(config) = 4 /\ Len(DescribesSent) = 4

\* C7: once createSensorList has returned, sensorList keeps the value it was
\* built with, whatever datagrams arrive; the writes of the decode rules go to
\* the copy.
C7_RegistryUnchanged ==
    (built.st = "ok" /\ pc # "build") => sensorList = built.list

\* a battery was decoded: the copy's capacity.nominal is rescaled, the
\* registry's is not
C7_Witness ==
    /\ pc = "emit"
    /\ tmpRef = CopyRef
    /\ \E i \in 1..Len(sensorList) :
          /\ "capacity.nominal" \in DOMAIN sensorList[i].desc
          /\ "voltage" \in DOMAIN sensorListTmp[i].desc
          /\ sensorListTmp[i].desc["capacity.nominal"]
                 # sensorList[i].desc["capacity.nominal"]

Last(seq) == seq[Len(seq)]
FullCycle == <<"recv", "parse", "dispatch", "emit", "sleep", "drain">>

\* C8 (as amended): after the output of an accepted frame the loop first
\* waits the fixed delay and then drains the UDP socket, and calls recvfrom
\* again only after both; the drain leaves no datagram that was queued when it
\* began, and no such datagram is ever decoded.
C8_DelayThenDrain ==
    /\ pc = "sleep" => cycle = SubSeq(FullCycle, 1, 4)
    /\ pc = "drain" => cycle = SubSeq(FullCycle, 1, 5)
    /\ (pc = "loop" /\ cycle # <<>> /\ Last(cycle) # "drop")
          => /\ cycle = FullCycle
             /\ \A i \in 1..Len(udp) : udp[i].id \notin atDrain
    /\ {c.id : c \in decoded} \cap atDrain = {}

\* a cycle is complete and a datagram that was queued at the drain is gone
C8_Witness ==
    pc = "loop" /\ cycle = FullCycle /\ atDrain # {} /\ outputs >= 1

\* C8 as stated: the drain comes first and the delay follows it; no datagram
\* queued at drain time is decoded.
C8_DrainThenDelay ==
    /\ \A i, j \in 1..Len(cycle) :
          (cycle[i] = "drain" /\ cycle[j] = "sleep") => i < j
    /\ {c.id : c \in decoded} \cap atDrain = {}

\* the index of the first 00 group of a text field's buffer, -1 when it has none
Group(buf, k) == Slice(buf, 21 + 3 * k, 23 + 3 * k)
FirstZeroGroup(buf) ==
    LET n == Len(buf) \div 3
    IN IF \E k \in 0..n : Group(buf, k) = <<"0", "0">>
       THEN CHOOSE k \in 0..n : /\ Group(buf, k) = <<"0", "0">>
                                /\ \A j \in 0..(k - 1) : Group(buf, j) # <<"0", "0">>
       ELSE -1

\* C9 as stated: on every buffer of field type 4 the scan terminates (it never
\* reaches an iteration that changes nothing while the loop goes on), it
\* returns the groups before the first 00 as text, and the rest begins 6
\* characters after that group.
C9_ScanTerminates ==
    /\ ~(fpc = "scan" /\ ScanStuck(sc))
    /\ fpc = "done" =>
          LET k == FirstZeroGroup(fbuf)
          IN /\ k >= 0
             /\ fres.st = "ok"
             /\ fres.data = StrV(HexToByte(Slice(fbuf, 21, 21 + 3 * k)))
             /\ fres.rest = SliceFrom(fbuf, 21 + 3 * k + 6)

\* C10 as stated: createSensorList returns a registry for every config; no
\* exception leaves it.
C10_NeverFails ==
    /\ built.st \in {"", "ok"}
    /\ built.st = "ok" => Len(built.pos) = Len(config)

FieldType(buf) == PyInt16(Slice(buf, 3, 5))
FieldChars(buf) == IF FieldType(buf) = 1 THEN 21 ELSE 36
PayloadAt(buf) == IF FieldType(buf) = 1 THEN Slice(buf, 6, 17) ELSE Slice(buf, 21, 32)

\* C11: a valid type-1 or type-3 field is decoded without error; encoding the
\* decoded number and value again in the field's layout gives the characters
\* of the original field (for type 3 with the 15 characters the decoder skips
\* taken over), the cursor has advanced by 21 or 36, and a type-3 payload
\* 7f ff ff ff decodes to Absent (''), every other payload to a pair.
C11_RoundTrip ==
    fpc = "done" =>
        /\ fres.st = "ok"
        /\ EncodeField(fres.nr, FieldType(fbuf), fres.data, Slice(fbuf, 6, 21))
               = Slice(fbuf, 0, FieldChars(fbuf))
        /\ EncodePayload(fres.data) = PayloadAt(fbuf)
        /\ fres.rest = SliceFrom(fbuf, FieldChars(fbuf))
        /\ (FieldType(fbuf) = 3 /\ PayloadAt(fbuf) = Sentinel) <=> fres.data = StrV(<<>>)
        /\ fres.data # StrV(<<>>) => fres.data.k = "list"

\* a type-3 field with the sentinel payload was decoded to Absent, with a
\* further field left in the buffer
C11_Witness ==
    /\ fpc = "done" /\ FieldType(fbuf) = 3 /\ PayloadAt(fbuf) = Sentinel
    /\ fres.data = StrV(<<>>) /\ Len(fres.rest) = 21

\* the dispatch of the frame is over
Dispatched == Len(cycle) >= 3 /\ cycle[3] = "dispatch"
SensorsOf(kind) == {i \in 1..Len(sensorList) : IsKind(sensorList[i].desc["type"], kind)}
\* element[pos + k] of sensor i
SensorSlot(i, k) == element[sensorList[i].desc["pos"].a + k]

\* (b / 10) / capacity * 100 in floats, for a capacity c
PercentOf(b, c) == FMul(FDiv(FloatV(b, 10), c), IntV(100))

\* C12: readTank raises no division error; with the slot [a, b] it writes
\* currentLevel = a/1000 and remainingCapacity = b/10, and percentage is 0
\* when the descriptor's capacity is 0 (or unset) and (b/10)/capacity*100
\* otherwise. The operations are those of doubles, each rounded: b = 545 with
\* capacity 100.0 gives 54.50000000000001, which the output rounds to 55.
C12_TankPercentage ==
    /\ err # "ZeroDivisionError"
    /\ Dispatched =>
          \A i \in SensorsOf("tank") :
             LET d == sensorListTmp[i].desc
                 c == sensorList[i].desc["capacity"]
             IN /\ pc # "crashed"
                /\ d["currentLevel"] = FloatV(SensorSlot(i, 0).a, 1000)
                /\ d["remainingCapacity"] = FloatV(SensorSlot(i, 0).b, 10)
                /\ d["percentage"] = IF IsZero(c) THEN IntV(0)
                                     ELSE PercentOf(SensorSlot(i, 0).b, c)
                /\ (c = FloatV(1000, 10) /\ SensorSlot(i, 0).b = 545) =>
                      /\ d["percentage"] # FloatV(109, 2)
                      /\ Round(d["percentage"]) = IntV(55)
    /\ \A b \in SecondValues :
          readTank(EmptyDict, EmptyDict, FrameOf(0, b), 0).desc["percentage"] = IntV(0)

\* a tank of capacity 0 was decoded from a slot with b = 1000: percentage 0
C12_Witness ==
    /\ Dispatched /\ pc = "emit"
    /\ \E i \in SensorsOf("tank") :
          /\ IsZero(sensorList[i].desc["capacity"])
          /\ SensorSlot(i, 0).b = 1000
          /\ sensorListTmp[i].desc["percentage"] = IntV(0)

\* -((65535 - b)/100) above 25000, -(b/100) up to it
ExpectedCurrent(b) ==
    IF b > 25000 THEN FNeg(FloatV(65535 - b, 100)) ELSE FNeg(FloatV(b, 100))
\* x <= 0 for a float x
NonPositive(x) == x.s = <<>> \/ x.b = -1

\* raw values across 0..65535: every 13th, and the ones around the fold
RawSamples == {13 * i : i \in 0..5041} \cup SecondValues

\* C15: the current readCurrent writes from element[pos][1] = b, and the one
\* readBatt writes from element[pos + 1][1] = b, is -((65535 - b)/100) when
\* b > 25000 and -(b/100) otherwise, and so never above 0; the fold gives this
\* value for the raw values sampled across 0..65535.
C15_CurrentNonPositive ==
    /\ Dispatched =>
          /\ \A i \in SensorsOf("current") :
                /\ pc # "crashed"
                /\ sensorListTmp[i].desc["current"] = ExpectedCurrent(SensorSlot(i, 0).b)
                /\ NonPositive(sensorListTmp[i].desc["current"])
          /\ \A i \in SensorsOf("battery") :
                /\ pc # "crashed"
                /\ sensorListTmp[i].desc["current"] = ExpectedCurrent(SensorSlot(i, 1).b)
                /\ NonPositive(sensorListTmp[i].desc["current"])
    /\ (pc = "dispatch" /\ variant = "json" /\ element = FrameOf(0, 0)
            /\ SensorsOf("current") # {})
          => \A b \in RawSamples :
                The({c = ExpectedCurrent(b) /\ NonPositive(c) : c \in {Current(b)}})

\* a current sensor was decoded from a raw value above the fold
C15_Witness ==
    /\ Dispatched /\ pc = "emit"
    /\ \E i \in SensorsOf("current") :
          /\ SensorSlot(i, 0).b = 25001
          /\ sensorListTmp[i].desc["current"] = FloatV(-40534, 100)

\* C13 as stated: in pico-json.py, once the output of an accepted frame is
\* printed, every inclinometer of the registry whose slot holds [a, b] shows
\* in the output's inclinometer object as b/10, under 'pitch' when the slot
\* index is even and under 'roll' when it is odd; an axis is null only when no
\* inclinometer reading was decoded for it.
C13_InclinometerOutput ==
    (variant = "json" /\ pc = "sleep") =>
        \A i \in SensorsOf("inclinometer") :
           LET p == sensorList[i].desc["pos"].a
           IN (p \in DOMAIN element /\ element[p].k = "list") =>
                 IF p % 2 = 0 THEN output.pitch = FloatV(element[p].b, 10)
                 ELSE output.roll = FloatV(element[p].b, 10)

\* the calls of getNextField that returned a field
Decoded(log) == {i \in 1..Len(log) : log[i].st = "ok"}
\* the last of them with field number n
LastWith(log, n) ==
    CHOOSE i \in Decoded(log) :
        log[i].nr = n /\ \A j \in Decoded(log) : log[j].nr = n => j <= i

\* C14 (as amended): parseResponse strips the first 42 characters and then
\* decodes fields one after another, continuing as long as more than 6
\* characters remain and stopping only when 6 or fewer remain; the returned
\* mapping holds, for each field number seen, the value of the last field
\* decoded with that number.
C14_ParseLoop ==
    /\ fpc \in {"loop", "returned", "raised", "hung"} =>
          /\ plog # <<>> => plog[1].len = Len(fbuf) - 42
          /\ presp = SliceFrom(fbuf, Len(fbuf) - Len(presp))
          /\ \A i \in 1..Len(plog) : plog[i].len > 6
    /\ fpc = "returned" =>
          /\ Len(presp) <= 6
          /\ \A i \in 1..Len(plog) :
                /\ plog[i].st = "ok"
                /\ plog[i].nr \in DOMAIN pdict
                /\ pdict[plog[i].nr] = plog[LastWith(plog, plog[i].nr)].data
          /\ parseResponse(fbuf) = [st |-> "ok", dict |-> pdict]

\* three fields, two of them with number 0, were decoded and the loop was
\* left with exactly 6 characters (two bytes) remaining
C14_Witness ==
    /\ fpc = "returned" /\ Len(presp) = 6 /\ Len(plog) = 3
    /\ plog[1].nr = 0 /\ plog[3].nr = 0 /\ plog[1].data # plog[3].data
    /\ pdict[0] = plog[3].data

\* C14 as stated: decoding goes on as long as at least 6 characters remain and
\* stops only when fewer than 6 remain; the mapping holds the last value per
\* field number.
C14_StopsBelowSix ==
    /\ fpc = "returned" => Len(presp) < 6
    /\ fpc \in {"loop", "returned"} =>
          \A n \in DOMAIN pdict : pdict[n] = plog[LastWith(plog, n)].data
====
